---- MODULE Spec2Model ----
(***************************************************************************)
(* State-machine model of the whisper ticketing cog (src/cogs/whisper.py). *)
(* Every command handler is a coroutine: a handler slot holds its position *)
(* (pc) and locals, and one action is one resumption of the coroutine, up  *)
(* to its next await.  A store statement takes effect in the step that     *)
(* issues it; the statements after the await run in the next step, so      *)
(* other handlers interleave between a store write and the cache write     *)
(* that follows it.                                                        *)
(***************************************************************************)
EXTENDS Integers, Sequences, FiniteSets, TLC

VARIABLES
    whispers,         \* the whispers table: rows in insertion order
    active_whispers,  \* WhisperCog._active_whispers: guild -> (user -> thread)
    hs,               \* handler slots: the running command of each, or Idle
    last,             \* the command that returned last, until the next one is issued
    threads,          \* platform threads created so far: id -> state
    channels,         \* guild -> ids of its existing management text channels
    whisper_enabled,  \* config key "whisper_enabled" per guild ("unset" | "on" | "off")
    whisper_channel,  \* config key "whisper_channel" per guild (NULL when unset)
    nextChannel,      \* next fresh platform channel id
    now,              \* datetime.utcnow(), advanced by every store write
    loadq,            \* cog_load: guilds of bot.guilds still to be loaded
    missed,           \* guilds whose open rows cog_load failed to load (history)
    lastRef,          \* guild -> user -> thread named by the last open reply (history)
    commands,         \* commands issued so far
    restarts,         \* process restarts so far
    failures,         \* upstream failures injected so far
    moderation_logs,  \* the moderation log table: rows in insertion order
    applied,          \* platform moderation actions carried out, in order
    dms,              \* direct messages delivered to members, in order
    mod,              \* the running (or last returned) moderation command
    bot_ready,        \* bot.wait_until_ready() returns
    ready,            \* Logging._ready (asyncio.Event) is set
    setup,            \* the task Logging.setup: its position and guilds left to load
    log_channels,     \* Logging.log_channels: guild -> cached channel id
    logs_config,      \* the stored logs_config of each guild's guild_data
    live,             \* channels bot.get_channel finds
    lh                \* get_log_channel calls and /logs channel commands, per slot

\* The state of the whisper cog, of the moderation cog.
whispervars == <<whispers, active_whispers, hs, last, threads, channels,
                 whisper_enabled, whisper_channel, nextChannel, now, loadq,
                 missed, lastRef, restarts>>
modvars == <<moderation_logs, applied, dms, mod>>
logvars == <<bot_ready, ready, setup, log_channels, logs_config, live, lh>>

\* What a step of the whisper cog leaves alone.
othercogs == <<modvars, logvars>>

vars == <<whispers, active_whispers, hs, last, threads, channels, whisper_enabled,
          whisper_channel, nextChannel, now, loadq, missed, lastRef,
          commands, restarts, failures, moderation_logs, applied, dms, mod,
          bot_ready, ready, setup, log_channels, logs_config, live, lh>>

----------------------------------------------------------------------------
(* Bounds *)

MaxCommands == 3
MaxRestarts == 1
MaxFailures == 1

(* SQL NULL / Python None for ids and timestamps *)
NULL == 0

Guilds == {"g1", "g2"}
GuildOrder == <<"g1", "g2">>          \* bot.guilds
Users == {"u1", "u2", "adm"}
Admins == {"adm"}                     \* guild_permissions.administrator
Handlers == {"h1", "h2"}

\* A command creates at most one thread and one channel.
ThreadIds == 1..MaxCommands
ChannelIds == 1..MaxCommands

EmptyDict == [x \in {} |-> NULL]

----------------------------------------------------------------------------
(* The store *)

\* INSERT INTO whispers (guild_id, user_id, thread_id, created_at, is_open)
\* VALUES (?, ?, ?, ?, 1): closed_at is left NULL.
InsertRow_Closed(tbl, g, u, t, at) ==
    Append(tbl, [guild_id |-> g, user_id |-> u, thread_id |-> t,
                 created_at |-> at, closed_at |-> NULL, is_open |-> FALSE])

InsertRow(tbl, g, u, t, at) ==
    Append(tbl, [guild_id |-> g, user_id |-> u, thread_id |-> t,
                 created_at |-> at, closed_at |-> NULL, is_open |-> TRUE])

\* UPDATE whispers SET is_open = 0, closed_at = ? WHERE guild_id = ? AND thread_id = ?
UpdateClosed_NoStamp(tbl, g, t, at) ==
    [i \in 1..Len(tbl) |->
        IF tbl[i].guild_id = g /\ tbl[i].thread_id = t
        THEN [tbl[i] EXCEPT !.is_open = FALSE]
        ELSE tbl[i]]

UpdateClosed_Deletes(tbl, g, t, at) ==
    LET Keep(w) == ~(w.guild_id = g /\ w.thread_id = t)
    IN SelectSeq(tbl, Keep)

UpdateClosed(tbl, g, t, at) ==
    [i \in 1..Len(tbl) |->
        IF tbl[i].guild_id = g /\ tbl[i].thread_id = t
        THEN [tbl[i] EXCEPT !.is_open = FALSE, !.closed_at = at]
        ELSE tbl[i]]

\* SELECT ... FROM whispers WHERE guild_id = ? AND is_open = 1
OpenRows_All(tbl, g) ==
    {i \in 1..Len(tbl) : tbl[i].guild_id = g}

OpenRows(tbl, g) ==
    {i \in 1..Len(tbl) : tbl[i].guild_id = g /\ tbl[i].is_open}

\* SELECT user_id FROM whispers WHERE guild_id = ? AND thread_id = ? AND is_open = 1
SelectOpen_AnyState(tbl, g, t) ==
    {i \in 1..Len(tbl) : tbl[i].guild_id = g /\ tbl[i].thread_id = t}

SelectOpen(tbl, g, t) ==
    {i \in OpenRows(tbl, g) : tbl[i].thread_id = t}

\* The open rows of one (guild, user) pair.
OpenOf(g, u) == {i \in OpenRows(whispers, g) : whispers[i].user_id = u}

----------------------------------------------------------------------------
(* The registry *)

\* self._active_whispers.get(guild) and user in it: the cached thread, or NULL
Lookup(g, u) ==
    IF g \in DOMAIN active_whispers /\ u \in DOMAIN active_whispers[g]
    THEN active_whispers[g][u]
    ELSE NULL

\* if guild not in cache: cache[guild] = {}; cache[guild][user] = thread
RecordOpen(reg, g, u, t) ==
    IF g \in DOMAIN reg
    THEN [reg EXCEPT ![g] = (u :> t) @@ @]
    ELSE (g :> (u :> t)) @@ reg

\* if guild in cache: cache[guild].pop(user, None)
RecordClosed_Keep(reg, g, u) == reg

RecordClosed_EveryGuild(reg, g, u) ==
    [k \in DOMAIN reg |-> [x \in (DOMAIN reg[k]) \ {u} |-> reg[k][x]]]

RecordClosed(reg, g, u) ==
    IF g \in DOMAIN reg
    THEN [reg EXCEPT ![g] = [x \in (DOMAIN @) \ {u} |-> @[x]]]
    ELSE reg

----------------------------------------------------------------------------
(* Handler slots *)

Idle == [cmd |-> "idle", pc |-> "idle", guild |-> "none", user |-> "none",
         thread |-> NULL, owner |-> "none", chan |-> NULL, enabled |-> "unset",
         responded |-> FALSE, replies |-> <<>>, nfail |-> 0, wrote |-> FALSE,
         wfail |-> FALSE, escaped |-> FALSE, solo |-> FALSE,
         preOpen |-> FALSE, preLen |-> 0, seenLen |-> 0,
         selected |-> FALSE, listed |-> {}]

Free(h) == hs[h].pc = "idle"

\* A reply reaches the invoker and the handler returns.
Finish(r, msg, ref) ==
    [r EXCEPT !.pc = "done", !.responded = TRUE,
              !.replies = Append(@, [msg |-> msg, ref |-> ref])]

\* An exception leaves the handler.
Escape(r) == [r EXCEPT !.pc = "done", !.escaped = TRUE]

\* interaction.response.send_message: InteractionResponded once responded.
ResponseSend(r, msg, ref) ==
    IF r.responded THEN Escape(r) ELSE Finish(r, msg, ref)

\* interaction.followup.send: the webhook exists only once the interaction
\* has been responded to (deferred).
FollowupSend(r, msg, ref) ==
    IF r.responded THEN Finish(r, msg, ref) ELSE Escape(r)

\* The handlers' except blocks: create_whisper answers through the followup
\* webhook, the other commands through interaction.response.
ExceptBlock(r) ==
    IF r.cmd = "open"
    THEN FollowupSend(r, "error", NULL)
    ELSE ResponseSend(r, "error", NULL)

Failed(r) == [r EXCEPT !.nfail = @ + 1]

\* Handler h has run up to its next await, or has returned: a handler that
\* returned frees its slot and is remembered as the last command.
Step(h, r) ==
    /\ hs' = [hs EXCEPT ![h] = IF r.pc = "done" THEN Idle ELSE r]
    /\ last' = IF r.pc = "done" THEN r ELSE last
    /\ UNCHANGED othercogs

\* Slot h starts a command: the other handlers are no longer running alone.
Started(h, r) ==
    LET me == [r EXCEPT !.solo = \A j \in Handlers \ {h} : Free(j)]
    IN /\ hs' = [k \in Handlers |->
                    IF k = h
                    THEN (IF me.pc = "done" THEN Idle ELSE me)
                    ELSE [hs[k] EXCEPT !.solo = FALSE]]
       /\ last' = IF me.pc = "done" THEN me ELSE Idle
       /\ UNCHANGED othercogs

\* Slots are interchangeable: a command takes the first free one.
SlotOrder == <<"h1", "h2">>
FirstFree(h) ==
    \E i \in 1..Len(SlotOrder) :
        /\ SlotOrder[i] = h
        /\ \A j \in 1..(i - 1) : ~Free(SlotOrder[j])

\* Commands are dispatched to the cog once cog_load has returned.
CanStart(h) ==
    /\ Free(h)
    /\ FirstFree(h)
    /\ loadq = <<>>
    /\ commands < MaxCommands

CanFail == failures < MaxFailures

----------------------------------------------------------------------------
(* create_whisper: /whisper *)

\* The command is issued by user u in guild g.
StartOpen(h, g, u) ==
    /\ CanStart(h)
    /\ Started(h, [Idle EXCEPT !.cmd = "open", !.pc = "c_cfg",
                                     !.guild = g, !.user = u,
                                     !.preOpen = (OpenOf(g, u) # {}),
                                     !.preLen = Len(whispers)])
    /\ commands' = commands + 1
    /\ UNCHANGED <<whispers, active_whispers, threads, channels, whisper_enabled,
                   whisper_channel, nextChannel, now, loadq, missed, lastRef,
                   restarts, failures>>

\* Outside a guild (lines 123-127): answered before the try block.
OpenOutsideGuild(h) ==
    /\ CanStart(h)
    /\ Started(h, ResponseSend([Idle EXCEPT !.cmd = "open"],
                                     "guild_only", NULL))
    /\ commands' = commands + 1
    /\ UNCHANGED <<whispers, active_whispers, threads, channels, whisper_enabled,
                   whisper_channel, nextChannel, now, loadq, missed, lastRef,
                   restarts, failures>>

\* A step of handler h that fails upstream inside the handler's try block.
Raise(h) ==
    /\ CanFail
    /\ failures' = failures + 1
    /\ Step(h, ExceptBlock(Failed(hs[h])))

\* config.get(guild, "whisper_enabled", True): unset reads as enabled.
Enabled_Always(g) == TRUE

Enabled(g) == whisper_enabled[g] # "off"

\* Lines 138-140: does the invoker already have a cached thread?
HasActive_Never(g, u) == FALSE

HasActive(g, u) == Lookup(g, u) # NULL

\* Lines 131-147: config.get returns; the enabled check, the duplicate check
\* against the cache, and the call of response.defer (or of the refusal).
OpenCheck(h) ==
    /\ hs[h].pc = "c_cfg"
    /\ LET r == hs[h]
           g == r.guild
           u == r.user
           en == Enabled(g)
       IN \/ /\ ~en
             /\ Step(h, ResponseSend([r EXCEPT !.enabled = "off"],
                                                    "disabled", NULL))
             /\ UNCHANGED <<failures, lastRef>>
          \/ /\ en
             /\ HasActive(g, u)
             /\ Step(h, ResponseSend([r EXCEPT !.enabled = "on"],
                                                    "already", Lookup(g, u)))
             /\ lastRef' = [lastRef EXCEPT ![g][u] = Lookup(g, u)]
             /\ UNCHANGED failures
          \/ /\ en
             /\ ~HasActive(g, u)
             /\ Step(h, [r EXCEPT !.enabled = "on", !.pc = "c_defer",
                                   !.seenLen = Len(whispers)])
             /\ UNCHANGED <<failures, lastRef>>
          \/ /\ Raise(h)
             /\ UNCHANGED lastRef
    /\ UNCHANGED <<whispers, active_whispers, threads, channels, whisper_enabled,
                   whisper_channel, nextChannel, now, loadq, missed,
                   commands, restarts>>

\* Line 147: response.defer returns; _setup_whisper_channel is entered.
OpenDefer(h) ==
    /\ hs[h].pc = "c_defer"
    /\ \/ /\ Step(h, [hs[h] EXCEPT !.responded = TRUE, !.pc = "s_get"])
          /\ UNCHANGED failures
       \/ Raise(h)
    /\ UNCHANGED <<whispers, active_whispers, threads, channels, whisper_enabled,
                   whisper_channel, nextChannel, now, loadq, missed, lastRef,
                   commands, restarts>>

----------------------------------------------------------------------------
(* _setup_whisper_channel *)

\* The caller's continuation once _setup_whisper_channel returns `c` (NULL
\* for None): create_whisper goes on to create the thread or reports the
\* failure (lines 151-155); setup_whispers ignores the result (line 307).
SetupReturn(r, c) ==
    IF r.cmd = "open"
    THEN IF c = NULL
         THEN FollowupSend(r, "fail_setup", NULL)
         ELSE [r EXCEPT !.chan = c, !.pc = "t_create"]
    ELSE [r EXCEPT !.chan = c, !.pc = "done"]

\* Lines 34-37: the configured channel, when it still exists.
ExistingChannel(g) ==
    IF whisper_channel[g] # NULL /\ whisper_channel[g] \in channels[g]
    THEN whisper_channel[g]
    ELSE NULL

\* Lines 30-37: both config.get calls return; an existing channel is returned.
SetupGet(h) ==
    /\ hs[h].pc = "s_get"
    /\ LET r == hs[h]
           c == ExistingChannel(r.guild)
       IN \/ /\ Step(h, IF c # NULL THEN SetupReturn(r, c)
                                        ELSE [r EXCEPT !.pc = "s_create"])
             /\ UNCHANGED failures
          \/ /\ CanFail
             /\ failures' = failures + 1
             /\ Step(h, SetupReturn(Failed(r), NULL))
    /\ UNCHANGED <<whispers, active_whispers, threads, channels, whisper_enabled,
                   whisper_channel, nextChannel, now, loadq, missed, lastRef,
                   commands, restarts>>

\* Lines 60-65: guild.create_text_channel.
SetupCreate(h) ==
    /\ hs[h].pc = "s_create"
    /\ LET r == hs[h]
       IN \/ /\ nextChannel \in ChannelIds
             /\ channels' = [channels EXCEPT ![r.guild] = @ \cup {nextChannel}]
             /\ nextChannel' = nextChannel + 1
             /\ Step(h, [r EXCEPT !.chan = nextChannel, !.pc = "s_set"])
             /\ UNCHANGED failures
          \/ /\ CanFail
             /\ failures' = failures + 1
             /\ Step(h, SetupReturn(Failed(r), NULL))
             /\ UNCHANGED <<channels, nextChannel>>
    /\ UNCHANGED <<whispers, active_whispers, threads, whisper_enabled,
                   whisper_channel, now, loadq, missed, lastRef,
                   commands, restarts>>

\* Lines 67-71: config.set("whisper_channel", str(channel.id)).
SetupSet(h) ==
    /\ hs[h].pc = "s_set"
    /\ LET r == hs[h]
       IN \/ /\ whisper_channel' = [whisper_channel EXCEPT ![r.guild] = r.chan]
             /\ Step(h, SetupReturn(r, r.chan))
             /\ UNCHANGED failures
          \/ /\ CanFail
             /\ failures' = failures + 1
             /\ Step(h, SetupReturn(Failed(r), NULL))
             /\ UNCHANGED whisper_channel
    /\ UNCHANGED <<whispers, active_whispers, threads, channels, whisper_enabled,
                   nextChannel, now, loadq, missed, lastRef,
                   commands, restarts>>

----------------------------------------------------------------------------
(* _create_whisper_thread *)

\* Lines 115-117 and 159-163: any exception makes _create_whisper_thread
\* return None, and create_whisper reports it.
ThreadFailed(h) ==
    /\ CanFail
    /\ failures' = failures + 1
    /\ Step(h, FollowupSend(Failed(hs[h]), "fail_thread", NULL))

\* Lines 82-86: channel.create_thread.
ThreadCreate(h) ==
    /\ hs[h].pc = "t_create"
    /\ LET r == hs[h]
           t == Len(threads) + 1
       IN \/ /\ t \in ThreadIds
             /\ threads' = Append(threads, [guild |-> r.guild, chan |-> r.chan,
                                            initial |-> 0, closing |-> 0,
                                            archived |-> FALSE, locked |-> FALSE])
             /\ Step(h, [r EXCEPT !.thread = t, !.pc = "t_send"])
             /\ UNCHANGED failures
          \/ /\ ThreadFailed(h)
             /\ UNCHANGED threads
    /\ UNCHANGED <<whispers, active_whispers, channels, whisper_enabled,
                   whisper_channel, nextChannel, now, loadq, missed, lastRef,
                   commands, restarts>>

\* Lines 89-98: thread.send of the initial metadata message.
ThreadSend_SkipOnFailure(h) ==
    /\ hs[h].pc = "t_send"
    /\ LET r == hs[h]
       IN \/ /\ threads' = [threads EXCEPT ![r.thread].initial = @ + 1]
             /\ Step(h, [r EXCEPT !.pc = "t_insert"])
             /\ UNCHANGED failures
          \/ /\ CanFail
             /\ failures' = failures + 1
             /\ Step(h, [Failed(r) EXCEPT !.pc = "t_insert"])
             /\ UNCHANGED threads
    /\ UNCHANGED <<whispers, active_whispers, channels, whisper_enabled,
                   whisper_channel, nextChannel, now, loadq, missed, lastRef,
                   commands, restarts>>

ThreadSend(h) ==
    /\ hs[h].pc = "t_send"
    /\ LET r == hs[h]
       IN \/ /\ threads' = [threads EXCEPT ![r.thread].initial = @ + 1]
             /\ Step(h, [r EXCEPT !.pc = "t_insert"])
             /\ UNCHANGED failures
          \/ /\ ThreadFailed(h)
             /\ UNCHANGED threads
    /\ UNCHANGED <<whispers, active_whispers, channels, whisper_enabled,
                   whisper_channel, nextChannel, now, loadq, missed, lastRef,
                   commands, restarts>>

\* Lines 101-104: the INSERT.  A failed INSERT writes nothing.
ThreadInsert_CacheOnFailure(h) ==
    /\ hs[h].pc = "t_insert"
    /\ LET r == hs[h]
       IN \/ /\ whispers' = InsertRow(whispers, r.guild, r.user, r.thread, now)
             /\ now' = now + 1
             /\ Step(h, [r EXCEPT !.wrote = TRUE, !.pc = "t_cache"])
             /\ UNCHANGED <<failures, active_whispers>>
          \/ /\ CanFail
             /\ failures' = failures + 1
             /\ Step(h,
                          FollowupSend([Failed(r) EXCEPT !.wfail = TRUE],
                                       "fail_thread", NULL))
             /\ active_whispers' = RecordOpen(active_whispers, r.guild, r.user, r.thread)
             /\ UNCHANGED <<whispers, now>>
    /\ UNCHANGED <<threads, channels, whisper_enabled,
                   whisper_channel, nextChannel, loadq, missed, lastRef,
                   commands, restarts>>

ThreadInsert_RollsBack(h) ==
    /\ hs[h].pc = "t_insert"
    /\ LET r == hs[h]
       IN \/ /\ whispers' = InsertRow(whispers, r.guild, r.user, r.thread, now)
             /\ now' = now + 1
             /\ Step(h, [r EXCEPT !.wrote = TRUE, !.pc = "t_cache"])
             /\ UNCHANGED <<failures, threads>>
          \/ /\ CanFail
             /\ failures' = failures + 1
             /\ Step(h,
                          FollowupSend([Failed(r) EXCEPT !.wfail = TRUE],
                                       "fail_thread", NULL))
             /\ threads' = [threads EXCEPT ![r.thread].initial = 0,
                                           ![r.thread].archived = TRUE]
             /\ UNCHANGED <<whispers, now>>
    /\ UNCHANGED <<active_whispers, channels, whisper_enabled,
                   whisper_channel, nextChannel, loadq, missed, lastRef,
                   commands, restarts>>

ThreadInsert(h) ==
    /\ hs[h].pc = "t_insert"
    /\ LET r == hs[h]
       IN \/ /\ whispers' = InsertRow(whispers, r.guild, r.user, r.thread, now)
             /\ now' = now + 1
             /\ Step(h, [r EXCEPT !.wrote = TRUE, !.pc = "t_cache"])
             /\ UNCHANGED failures
          \/ /\ CanFail
             /\ failures' = failures + 1
             /\ Step(h,
                          FollowupSend([Failed(r) EXCEPT !.wfail = TRUE],
                                       "fail_thread", NULL))
             /\ UNCHANGED <<whispers, now>>
    /\ UNCHANGED <<active_whispers, threads, channels, whisper_enabled,
                   whisper_channel, nextChannel, loadq, missed, lastRef,
                   commands, restarts>>

\* Lines 106-113 and 165-169: db.execute has returned; the cache is updated,
\* the thread is returned and the success reply is sent.  A failing reply is
\* caught by the except block of create_whisper (lines 171-176).
ThreadCache(h) ==
    /\ hs[h].pc = "t_cache"
    /\ LET r == hs[h]
       IN /\ active_whispers' = RecordOpen(active_whispers, r.guild, r.user, r.thread)
          /\ \/ /\ Step(h, FollowupSend(r, "created", r.thread))
                /\ lastRef' = [lastRef EXCEPT ![r.guild][r.user] = r.thread]
                /\ UNCHANGED failures
             \/ /\ Raise(h)
                /\ lastRef' = [lastRef EXCEPT ![r.guild][r.user] = NULL]
    /\ UNCHANGED <<whispers, threads, channels, whisper_enabled,
                   whisper_channel, nextChannel, now, loadq, missed,
                   commands, restarts>>

----------------------------------------------------------------------------
(* close_whisper: /close *)

\* The command is issued by user u inside thread t.
StartClose(h, t, u) ==
    /\ CanStart(h)
    /\ t \in 1..Len(threads)
    /\ LET g == threads[t].guild
       IN Started(h, [Idle EXCEPT !.cmd = "close", !.pc = "x_select",
                                        !.guild = g, !.user = u, !.thread = t,
                                        !.preOpen = (SelectOpen(whispers, g, t) # {}),
                                        !.preLen = Len(whispers)])
    /\ commands' = commands + 1
    /\ UNCHANGED <<whispers, active_whispers, threads, channels, whisper_enabled,
                   whisper_channel, nextChannel, now, loadq, missed, lastRef,
                   restarts, failures>>

\* Outside a thread (lines 182-186): answered before the try block.
CloseOutsideThread(h) ==
    /\ CanStart(h)
    /\ Started(h, ResponseSend([Idle EXCEPT !.cmd = "close"],
                                     "thread_only", NULL))
    /\ commands' = commands + 1
    /\ UNCHANGED <<whispers, active_whispers, threads, channels, whisper_enabled,
                   whisper_channel, nextChannel, now, loadq, missed, lastRef,
                   restarts, failures>>

\* Lines 201-203: administrators and the thread's creator may close.
MayClose_Anyone(u, owner) == TRUE

MayClose(u, owner) == u \in Admins \/ u = owner

\* Lines 190-207: fetchone returns; the whisper check and the permission check.
CloseSelect(h) ==
    /\ hs[h].pc = "x_select"
    /\ LET r == hs[h]
           rows == SelectOpen(whispers, r.guild, r.thread)
       IN \/ /\ rows = {}
             /\ Step(h, ResponseSend(r, "not_whisper", NULL))
             /\ UNCHANGED failures
          \/ /\ rows # {}
             /\ LET owner == whispers[CHOOSE i \in rows : \A j \in rows : i <= j].user_id
                IN Step(h,
                            IF MayClose(r.user, owner)
                            THEN [r EXCEPT !.owner = owner, !.pc = "x_send"]
                            ELSE ResponseSend([r EXCEPT !.owner = owner],
                                              "no_permission", NULL))
             /\ UNCHANGED failures
          \/ Raise(h)
    /\ UNCHANGED <<whispers, active_whispers, threads, channels, whisper_enabled,
                   whisper_channel, nextChannel, now, loadq, missed, lastRef,
                   commands, restarts>>

\* Lines 210-217: channel.send of the closing message.
CloseSend_ArchivesFirst(h) ==
    /\ hs[h].pc = "x_send"
    /\ \/ /\ threads' = [threads EXCEPT ![hs[h].thread].closing = @ + 1,
                                        ![hs[h].thread].archived = TRUE,
                                        ![hs[h].thread].locked = TRUE]
          /\ Step(h, [hs[h] EXCEPT !.pc = "x_update"])
          /\ UNCHANGED failures
       \/ /\ Raise(h)
          /\ UNCHANGED threads
    /\ UNCHANGED <<whispers, active_whispers, channels, whisper_enabled,
                   whisper_channel, nextChannel, now, loadq, missed, lastRef,
                   commands, restarts>>

CloseSend(h) ==
    /\ hs[h].pc = "x_send"
    /\ \/ /\ threads' = [threads EXCEPT ![hs[h].thread].closing = @ + 1]
          /\ Step(h, [hs[h] EXCEPT !.pc = "x_update"])
          /\ UNCHANGED failures
       \/ /\ Raise(h)
          /\ UNCHANGED threads
    /\ UNCHANGED <<whispers, active_whispers, channels, whisper_enabled,
                   whisper_channel, nextChannel, now, loadq, missed, lastRef,
                   commands, restarts>>

\* Lines 220-223: the UPDATE.  A failed UPDATE writes nothing.
CloseUpdate(h) ==
    /\ hs[h].pc = "x_update"
    /\ LET r == hs[h]
       IN \/ /\ whispers' = UpdateClosed(whispers, r.guild, r.thread, now)
             /\ now' = now + 1
             /\ Step(h, [r EXCEPT !.wrote = TRUE, !.pc = "x_cache"])
             /\ lastRef' = [lastRef EXCEPT ![r.guild][r.owner] = NULL]
             /\ UNCHANGED failures
          \/ /\ CanFail
             /\ failures' = failures + 1
             /\ Step(h, ExceptBlock([Failed(r) EXCEPT !.wfail = TRUE]))
             /\ UNCHANGED <<whispers, now, lastRef>>
    /\ UNCHANGED <<active_whispers, threads, channels, whisper_enabled,
                   whisper_channel, nextChannel, loadq, missed,
                   commands, restarts>>

\* Lines 225-232: db.execute has returned; the cache entry of the thread's
\* owner is popped and channel.edit is called.
CloseCache(h) ==
    /\ hs[h].pc = "x_cache"
    /\ LET r == hs[h]
       IN /\ active_whispers' = RecordClosed(active_whispers, r.guild, r.owner)
          /\ lastRef' = [lastRef EXCEPT ![r.guild][r.owner] = NULL]
          /\ Step(h, [r EXCEPT !.pc = "x_edit"])
    /\ UNCHANGED <<whispers, threads, channels, whisper_enabled,
                   whisper_channel, nextChannel, now, loadq, missed,
                   commands, restarts, failures>>

\* Lines 232-237: channel.edit(archived=True, locked=True) returns and the
\* success reply is sent; either call may fail (lines 239-244).
CloseEdit_Reopens(h) ==
    /\ hs[h].pc = "x_edit"
    /\ LET r == hs[h]
           edited == [threads EXCEPT ![r.thread].archived = TRUE,
                                     ![r.thread].locked = TRUE]
       IN \/ /\ threads' = edited
             /\ Step(h, ResponseSend(r, "closed", NULL))
             /\ UNCHANGED <<failures, whispers, active_whispers>>
          \/ /\ threads' = edited
             /\ Raise(h)
             /\ UNCHANGED <<whispers, active_whispers>>
          \/ /\ UNCHANGED threads
             /\ Raise(h)
             /\ whispers' = [i \in 1..Len(whispers) |->
                               IF whispers[i].thread_id = r.thread
                               THEN [whispers[i] EXCEPT !.is_open = TRUE,
                                                        !.closed_at = NULL]
                               ELSE whispers[i]]
             /\ active_whispers' = RecordOpen(active_whispers, r.guild,
                                              r.owner, r.thread)
    /\ UNCHANGED <<channels, whisper_enabled,
                   whisper_channel, nextChannel, now, loadq, missed, lastRef,
                   commands, restarts>>

CloseEdit(h) ==
    /\ hs[h].pc = "x_edit"
    /\ LET r == hs[h]
           edited == [threads EXCEPT ![r.thread].archived = TRUE,
                                     ![r.thread].locked = TRUE]
       IN \/ /\ threads' = edited
             /\ Step(h, ResponseSend(r, "closed", NULL))
             /\ UNCHANGED failures
          \/ /\ threads' = edited
             /\ Raise(h)
          \/ /\ UNCHANGED threads
             /\ Raise(h)
    /\ UNCHANGED <<whispers, active_whispers, channels, whisper_enabled,
                   whisper_channel, nextChannel, now, loadq, missed, lastRef,
                   commands, restarts>>

----------------------------------------------------------------------------
(* setup_whispers: /whisper-setup *)

\* After the optional config writes of lines 267-271.
AfterEnabled(r) == IF r.chan # NULL THEN "p_channel" ELSE "p_show"

\* Issued by a member with manage_guild (the command's default permission),
\* with the optional arguments `enabled` and `channel`.
StartSetup(h, g, u, en, ch) ==
    /\ CanStart(h)
    /\ u \in Admins
    /\ ch \in {NULL} \cup channels[g]
    /\ LET r == [Idle EXCEPT !.cmd = "setup", !.guild = g, !.user = u,
                             !.enabled = en, !.chan = ch]
       IN Started(h, [r EXCEPT !.pc = IF en # "unset" THEN "p_enabled"
                                            ELSE AfterEnabled(r)])
    /\ commands' = commands + 1
    /\ UNCHANGED <<whispers, active_whispers, threads, channels, whisper_enabled,
                   whisper_channel, nextChannel, now, loadq, missed, lastRef,
                   restarts, failures>>

\* Lines 267-268: config.set("whisper_enabled", enabled).
SetupEnabled(h) ==
    /\ hs[h].pc = "p_enabled"
    /\ LET r == hs[h]
       IN \/ /\ whisper_enabled' = [whisper_enabled EXCEPT ![r.guild] = r.enabled]
             /\ Step(h, [r EXCEPT !.pc = AfterEnabled(r)])
             /\ UNCHANGED failures
          \/ /\ Raise(h)
             /\ UNCHANGED whisper_enabled
    /\ UNCHANGED <<whispers, active_whispers, threads, channels,
                   whisper_channel, nextChannel, now, loadq, missed, lastRef,
                   commands, restarts>>

\* Lines 270-271: config.set("whisper_channel", str(channel.id)).
SetupChannel(h) ==
    /\ hs[h].pc = "p_channel"
    /\ LET r == hs[h]
       IN \/ /\ whisper_channel' = [whisper_channel EXCEPT ![r.guild] = r.chan]
             /\ Step(h, [r EXCEPT !.pc = "p_show"])
             /\ UNCHANGED failures
          \/ /\ Raise(h)
             /\ UNCHANGED whisper_channel
    /\ UNCHANGED <<whispers, active_whispers, threads, channels, whisper_enabled,
                   nextChannel, now, loadq, missed, lastRef,
                   commands, restarts>>

\* Lines 274-307: the settings are read back and shown; with enabled=True and
\* no configured channel, _setup_whisper_channel is entered.
SetupShow(h) ==
    /\ hs[h].pc = "p_show"
    /\ LET r == hs[h]
           shown == ResponseSend(r, "settings", NULL)
       IN \/ /\ Step(h,
                          IF r.enabled = "on" /\ whisper_channel[r.guild] = NULL
                          THEN [shown EXCEPT !.pc = "s_get"]
                          ELSE shown)
             /\ UNCHANGED failures
          \/ Raise(h)
    /\ UNCHANGED <<whispers, active_whispers, threads, channels, whisper_enabled,
                   whisper_channel, nextChannel, now, loadq, missed, lastRef,
                   commands, restarts>>

----------------------------------------------------------------------------
(* list_whispers: /list-whispers *)

\* Lines 330-340: the administrator check; an administrator's handler issues
\* the SELECT of the guild's open rows.
StartList(h, g, u) ==
    /\ CanStart(h)
    /\ LET r == [Idle EXCEPT !.cmd = "list", !.guild = g, !.user = u,
                             !.preLen = Len(whispers)]
       IN Started(h, IF u \in Admins
                     THEN [r EXCEPT !.pc = "l_select", !.selected = TRUE]
                     ELSE ResponseSend(r, "no_permission", NULL))
    /\ commands' = commands + 1
    /\ UNCHANGED <<whispers, active_whispers, threads, channels, whisper_enabled,
                   whisper_channel, nextChannel, now, loadq, missed, lastRef,
                   restarts, failures>>

\* Lines 355-357: guild.get_thread resolves a thread that is in the cache;
\* an archived thread is not.
Resolves(t) == t \in 1..Len(threads) /\ ~threads[t].archived

\* Lines 355-365: one embed field per row whose member and thread resolve.
Shown(tbl, rows) == {tbl[i].thread_id : i \in {j \in rows : Resolves(tbl[j].thread_id)}}

\* Lines 337-367: fetchall returns; "no active whisper threads" or the embed.
ListSelect(h) ==
    /\ hs[h].pc = "l_select"
    /\ LET r == hs[h]
           rows == OpenRows(whispers, r.guild)
       IN \/ /\ Step(h, IF rows = {}
                         THEN ResponseSend(r, "none", NULL)
                         ELSE ResponseSend([r EXCEPT !.listed = Shown(whispers, rows)],
                                           "list", NULL))
             /\ UNCHANGED failures
          \/ Raise(h)
    /\ UNCHANGED <<whispers, active_whispers, threads, channels, whisper_enabled,
                   whisper_channel, nextChannel, now, loadq, missed, lastRef,
                   commands, restarts>>

----------------------------------------------------------------------------
(* The platform *)

\* create_thread (lines 82-86) sets no auto_archive_duration: the platform
\* archives the thread after the channel's default period of inactivity.  An
\* archived thread leaves the guild's thread cache; it is not locked.
AutoArchive(t) ==
    /\ t \in 1..Len(threads)
    /\ ~threads[t].archived
    /\ threads[t].initial > 0
    /\ threads' = [threads EXCEPT ![t].archived = TRUE]
    /\ UNCHANGED <<whispers, active_whispers, hs, last, channels, whisper_enabled,
                   whisper_channel, nextChannel, now, loadq, missed, lastRef,
                   commands, restarts, failures>>
    /\ UNCHANGED othercogs

----------------------------------------------------------------------------
(* Process start: __init__ and cog_load *)

\* The process is restarted: every running handler is gone, the store and the
\* platform keep their state, a new cog starts with an empty cache (line 24)
\* and cog_load runs before any command is accepted.
Restart ==
    /\ restarts < MaxRestarts
    /\ restarts' = restarts + 1
    /\ hs' = [h \in Handlers |-> Idle]
    /\ last' = Idle
    /\ active_whispers' = EmptyDict
    /\ loadq' = GuildOrder
    /\ missed' = {}
    /\ lastRef' = [g \in Guilds |-> [u \in Users |-> NULL]]
    /\ UNCHANGED <<whispers, threads, channels, whisper_enabled,
                   whisper_channel, nextChannel, now, commands, failures>>
    /\ UNCHANGED othercogs

\* Lines 385-387: {w['user_id']: w['thread_id'] for w in whispers}.  The
\* SELECT has no ORDER BY: with several open rows of one user, any of them
\* may come last and win.
LoadedDicts_Closed(tbl, g) ==
    LET rows == OpenRows_All(tbl, g)
        us == {tbl[i].user_id : i \in rows}
    IN {d \in [us -> ThreadIds] :
           \A u \in us : \E i \in rows : tbl[i].user_id = u /\ tbl[i].thread_id = d[u]}

LoadedDicts(tbl, g) ==
    LET rows == OpenRows(tbl, g)
        us == {tbl[i].user_id : i \in rows}
    IN {d \in [us -> ThreadIds] :
           \A u \in us : \E i \in rows : tbl[i].user_id = u /\ tbl[i].thread_id = d[u]}

\* Lines 378-390: one iteration of the loop over bot.guilds.
CogLoadGuild ==
    /\ loadq # <<>>
    /\ LET g == Head(loadq)
       IN \/ /\ IF OpenRows(whispers, g) # {}
                THEN \E d \in LoadedDicts(whispers, g) :
                        active_whispers' = (g :> d) @@ active_whispers
                ELSE UNCHANGED active_whispers
             /\ UNCHANGED <<failures, missed>>
          \/ /\ CanFail
             /\ failures' = failures + 1
             /\ missed' = IF OpenRows(whispers, g) # {} THEN missed \cup {g} ELSE missed
             /\ UNCHANGED active_whispers
    /\ loadq' = Tail(loadq)
    /\ UNCHANGED <<whispers, hs, last, threads, channels, whisper_enabled,
                   whisper_channel, nextChannel, now, lastRef,
                   commands, restarts>>
    /\ UNCHANGED othercogs

----------------------------------------------------------------------------
(* The moderation cog (src/cogs/moderation.py) *)

\* mute: "if duration < 1 or duration > 40320" (Discord's limit: 28 days).
MinMinutes == 1
MaxMinutes == 40320

ModCommands == {"kick", "ban", "unban", "mute", "unmute", "warn", "warnings",
                "modlogs", "purge", "lock", "unlock"}

\* The log action a command writes.
LogAction(cmd) ==
    CASE cmd = "kick" -> "KICK"
      [] cmd = "ban" -> "BAN"
      [] cmd = "unban" -> "UNBAN"
      [] cmd = "mute" -> "MUTE"
      [] cmd = "unmute" -> "UNMUTE"
      [] cmd = "warn" -> "WARN"
      [] cmd = "purge" -> "PURGE"
      [] cmd = "lock" -> "LOCK"
      [] cmd = "unlock" -> "UNLOCK"
      [] OTHER -> "NONE"

\* Commands that check a permission of the bot, that check the role
\* hierarchy, that DM the member first, that only read the log.
NeedsBot == ModCommands \ {"warn", "warnings", "modlogs"}
ChecksHierarchy == {"kick", "ban", "mute"}
SendsDM == {"kick", "ban", "warn"}
ReadsLog == {"warnings", "modlogs"}

\* The invoker: in a guild or not, a Member or a plain User, and the guild
\* permissions administrator, manage_guild, kick_members, ban_members.
Invokers == [guild : BOOLEAN, member : BOOLEAN, administrator : BOOLEAN,
             manage_guild : BOOLEAN, kick_members : BOOLEAN, ban_members : BOOLEAN]

\* _check_mod_permissions reads the configuration only when the invoker is a
\* guild member without administrator and manage_guild.
ReadsConfig(i) ==
    i.guild /\ i.member /\ ~(i.administrator \/ i.manage_guild)

\* _check_mod_permissions, with `enabled` the value that
\* config.get(guild, "moderation_enabled", True) returns.
CheckMod_EnabledOnly(i, enabled) ==
    i.guild /\ i.member /\ enabled /\ (i.kick_members \/ i.ban_members)

CheckMod(i, enabled) ==
    IF ~i.guild \/ ~i.member THEN FALSE
    ELSE IF i.administrator \/ i.manage_guild THEN TRUE
    ELSE IF ~enabled THEN FALSE
    ELSE i.kick_members \/ i.ban_members

Targets == {"m1"}
Durations == {0 - 1, 0, MinMinutes, MaxMinutes, MaxMinutes + 1}

NoInvoker == [guild |-> FALSE, member |-> FALSE, administrator |-> FALSE,
              manage_guild |-> FALSE, kick_members |-> FALSE, ban_members |-> FALSE]

\* A moderation command: its arguments, the facts its checks read, its
\* position and what it has done so far.
ModIdle == [cmd |-> "idle", pc |-> "idle", invoker |-> NoInvoker,
            enabled |-> TRUE, target |-> "none", duration |-> MinMinutes,
            botperm |-> TRUE, valid |-> TRUE, top |-> 1,
            allowed |-> FALSE, responded |-> FALSE, replies |-> <<>>,
            escaped |-> FALSE, nfail |-> 0, dm_sent |-> FALSE,
            acted |-> FALSE, logged |-> FALSE, read |-> FALSE]

\* A moderation command is issued.  `valid` stands for the precondition the
\* command checks besides the duration (unmute: the member is timed out;
\* purge: 1 <= limit <= 100 in a text channel; lock, unlock: a text channel).
StartMod(cmd, i, en, tg, d, bp, ok, tr) ==
    /\ mod.pc \in {"idle", "done"}
    /\ commands < MaxCommands
    /\ commands' = commands + 1
    /\ mod' = [ModIdle EXCEPT !.cmd = cmd, !.pc = "m_check", !.invoker = i,
                              !.enabled = en, !.target = tg, !.duration = d,
                              !.botperm = bp, !.valid = ok, !.top = tr]
    /\ UNCHANGED <<whispervars, logvars, failures, moderation_logs, applied, dms>>

\* The except blocks of the moderation commands: purge answers through the
\* followup webhook, every other command through interaction.response.
ModExcept(r, msg) ==
    IF r.cmd = "purge"
    THEN FollowupSend(Failed(r), msg, NULL)
    ELSE ResponseSend(Failed(r), msg, NULL)

\* An awaited call of the try block raises discord.Forbidden or another
\* exception.
ModRaise ==
    /\ CanFail
    /\ failures' = failures + 1
    /\ \E msg \in {"forbidden", "error"} :
          /\ msg = "forbidden" => mod.cmd \notin {"warn", "warnings", "modlogs"}
          /\ mod' = ModExcept(mod, msg)

\* mute (line 217): the duration is outside 1..40320.
BadDuration_UpperOnly(d) == d > MaxMinutes

BadDuration(d) == d < MinMinutes \/ d > MaxMinutes

\* Role positions, and the position of the bot's top role.
Roles == 1..3
BotTopRole == 2

\* member.top_role >= interaction.guild.me.top_role (lines 70, 119, 220).
Outranks_OnlyAbove(r) == r.cmd \in ChecksHierarchy /\ r.top > BotTopRole

Outranks(r) == r.cmd \in ChecksHierarchy /\ r.top >= BotTopRole

\* The first step of the try block of each command.
FirstStep(cmd) ==
    CASE cmd \in SendsDM -> "m_dm"
      [] cmd = "unban" -> "m_fetch"
      [] cmd = "purge" -> "m_defer"
      [] cmd \in ReadsLog -> "m_read"
      [] OTHER -> "m_act"

\* The checks before the try block: _check_mod_permissions, the bot's own
\* permission, the command's arguments, the role hierarchy.  They run
\* outside the try block: a failing config read or reply escapes.
ModCheck_NoPermissionCheck ==
    /\ mod.pc = "m_check"
    /\ LET r == [mod EXCEPT !.allowed = TRUE]
       IN mod' = [r EXCEPT !.pc = FirstStep(r.cmd)]
    /\ UNCHANGED <<whispervars, logvars, commands, failures, moderation_logs, applied, dms>>

ModCheck ==
    /\ mod.pc = "m_check"
    /\ LET ok == CheckMod(mod.invoker, mod.enabled)
           r == [mod EXCEPT !.allowed = ok]
           refusal ==
               IF ~ok THEN "no_permission"
               ELSE IF r.cmd \in NeedsBot /\ ~r.botperm THEN "bot_no_permission"
               ELSE IF r.cmd = "mute" /\ BadDuration(r.duration) THEN "bad_duration"
               ELSE IF r.cmd \in {"unmute", "purge", "lock", "unlock"} /\ ~r.valid
                    THEN "invalid"
               ELSE IF Outranks(r) THEN "hierarchy"
               ELSE "none"
       IN \/ /\ mod' = IF refusal = "none"
                       THEN [r EXCEPT !.pc = FirstStep(r.cmd)]
                       ELSE ResponseSend(r, refusal, NULL)
             /\ UNCHANGED failures
          \/ /\ CanFail
             /\ ReadsConfig(mod.invoker) \/ refusal # "none"
             /\ failures' = failures + 1
             /\ mod' = Escape(Failed(mod))
    /\ UNCHANGED <<whispervars, logvars, commands, moderation_logs, applied, dms>>

\* _send_user_dm (lines 41-56): True when delivered, False on Forbidden or
\* HTTPException.
ModDM ==
    /\ mod.pc = "m_dm"
    /\ LET next == IF mod.cmd = "warn" THEN "m_log" ELSE "m_act"
       IN \/ /\ dms' = Append(dms, mod.target)
             /\ mod' = [mod EXCEPT !.dm_sent = TRUE, !.pc = next]
             /\ UNCHANGED failures
          \/ /\ CanFail
             /\ failures' = failures + 1
             /\ mod' = [Failed(mod) EXCEPT !.pc = next]
             /\ UNCHANGED dms
    /\ UNCHANGED <<whispervars, logvars, commands, moderation_logs, applied>>

\* unban (lines 170-173): guild.fetch_ban; NotFound is answered.
ModFetch ==
    /\ mod.pc = "m_fetch"
    /\ \/ /\ mod' = IF mod.valid THEN [mod EXCEPT !.pc = "m_act"]
                    ELSE ResponseSend(mod, "not_banned", NULL)
          /\ UNCHANGED failures
       \/ ModRaise
    /\ UNCHANGED <<whispervars, logvars, commands, moderation_logs, applied, dms>>

\* purge (line 460): response.defer.
ModDefer ==
    /\ mod.pc = "m_defer"
    /\ \/ /\ mod' = [mod EXCEPT !.responded = TRUE, !.pc = "m_act"]
          /\ UNCHANGED failures
       \/ ModRaise
    /\ UNCHANGED <<whispervars, logvars, commands, moderation_logs, applied, dms>>

\* The platform call: member.kick, member.ban, guild.unban, member.timeout,
\* channel.purge, channel.set_permissions.
ModAct_LogsOnFailure ==
    /\ mod.pc = "m_act"
    /\ \/ /\ applied' = Append(applied, [action |-> LogAction(mod.cmd),
                                         target |-> mod.target])
          /\ mod' = [mod EXCEPT !.acted = TRUE, !.pc = "m_log"]
          /\ UNCHANGED failures
       \/ /\ CanFail
          /\ failures' = failures + 1
          /\ mod' = [Failed(mod) EXCEPT !.pc = "m_log"]
          /\ UNCHANGED applied
    /\ UNCHANGED <<whispervars, logvars, commands, moderation_logs, dms>>

ModAct ==
    /\ mod.pc = "m_act"
    /\ \/ /\ applied' = Append(applied, [action |-> LogAction(mod.cmd),
                                         target |-> mod.target])
          /\ mod' = [mod EXCEPT !.acted = TRUE, !.pc = "m_log"]
          /\ UNCHANGED failures
       \/ /\ ModRaise
          /\ UNCHANGED applied
    /\ UNCHANGED <<whispervars, logvars, commands, moderation_logs, dms>>

\* db.log_moderation_action(guild, user, action, reason, moderator).
ModLog ==
    /\ mod.pc = "m_log"
    /\ \/ /\ moderation_logs' = Append(moderation_logs,
                                       [action |-> LogAction(mod.cmd),
                                        target |-> mod.target])
          /\ mod' = [mod EXCEPT !.logged = TRUE, !.pc = "m_reply"]
          /\ UNCHANGED failures
       \/ /\ ModRaise
          /\ UNCHANGED moderation_logs
    /\ UNCHANGED <<whispervars, logvars, commands, applied, dms>>

\* warnings, modlogs: db.get_moderation_logs(guild, member).
ModRead ==
    /\ mod.pc = "m_read"
    /\ \/ /\ mod' = [mod EXCEPT !.read = TRUE, !.pc = "m_reply"]
          /\ UNCHANGED failures
       \/ ModRaise
    /\ UNCHANGED <<whispervars, logvars, commands, moderation_logs, applied, dms>>

\* The success reply; a failure of it is caught by the except block.
ModReply ==
    /\ mod.pc = "m_reply"
    /\ \/ /\ mod' = IF mod.cmd = "purge" THEN FollowupSend(mod, "ok", NULL)
                                          ELSE ResponseSend(mod, "ok", NULL)
          /\ UNCHANGED failures
       \/ ModRaise
    /\ UNCHANGED <<whispervars, logvars, commands, moderation_logs, applied, dms>>

----------------------------------------------------------------------------
(* The Logging cog *)

\* The channels a guild's logs can be sent to, and the guild of each.
LogChannels == 1..3
ChannelGuild(c) == IF c = 3 THEN "g2" ELSE "g1"

\* guild_data.get('logs_config', {}) as get_guild_data returns it: `present`
\* is false when the guild has no guild_data; a missing 'enabled' reads as
\* True and a missing 'channel_id' as None.
NoData == [present |-> FALSE, enabled |-> TRUE, channel_id |-> NULL]
Unset == [NoData EXCEPT !.present = TRUE]
Stored(en, c) == [present |-> TRUE, enabled |-> en, channel_id |-> c]

\* bot.get_channel(id): None for a channel that no longer exists.
GetChannel(c) == IF c \in live THEN c ELSE NULL

\* A get_log_channel call or a /logs channel command.
LogIdle == [cmd |-> "idle", pc |-> "idle", guild |-> "none", chan |-> NULL,
            perms |-> TRUE, data |-> NoData, result |-> NULL]

Running(h) == lh[h].pc \notin {"idle", "done"}

\* The Logging cog before the bot is ready: nothing cached, nothing stored.
LoggingIdle ==
    /\ bot_ready = FALSE
    /\ ready = FALSE
    /\ setup = [pc |-> "wait", queue |-> <<>>]
    /\ log_channels = EmptyDict
    /\ logs_config = [g \in Guilds |-> NoData]
    /\ live = LogChannels
    /\ lh = [h \in Handlers |-> LogIdle]

\* The bot becomes ready.
BotReady ==
    /\ ~bot_ready
    /\ bot_ready' = TRUE
    /\ UNCHANGED <<whispervars, modvars, commands, failures,
                   ready, setup, log_channels, logs_config, live, lh>>

\* setup, line 21: await self.bot.wait_until_ready().
LogSetupWait ==
    /\ setup.pc = "wait"
    /\ bot_ready
    /\ setup' = [setup EXCEPT !.pc = "connect"]
    /\ UNCHANGED <<whispervars, modvars, commands, failures,
                   bot_ready, ready, log_channels, logs_config, live, lh>>

\* setup, lines 23-32: ensure_connection returns True and load_log_channels
\* is entered (its wait_until_ready returns at once); it returns False
\* (line 26: return) or raises (line 31): setup ends, _ready is not set.
LogSetupConnect ==
    /\ setup.pc = "connect"
    /\ \/ /\ setup' = [setup EXCEPT !.pc = "load_connect"]
          /\ UNCHANGED failures
       \/ /\ CanFail
          /\ failures' = failures + 1
          /\ setup' = [setup EXCEPT !.pc = "done"]
    /\ UNCHANGED <<whispervars, modvars, commands,
                   bot_ready, ready, log_channels, logs_config, live, lh>>

\* load_log_channels, lines 43-45 and 72-73: ensure_connection; when it
\* returns False or raises, load_log_channels returns and setup sets _ready
\* (line 29).
LoadConnect ==
    /\ setup.pc = "load_connect"
    /\ \/ /\ setup' = [pc |-> "load", queue |-> GuildOrder]
          /\ UNCHANGED <<failures, ready>>
       \/ /\ CanFail
          /\ failures' = failures + 1
          /\ setup' = [setup EXCEPT !.pc = "done"]
          /\ ready' = TRUE
    /\ UNCHANGED <<whispervars, modvars, commands,
                   bot_ready, log_channels, logs_config, live, lh>>

\* The cache after load_log_channels has read guild g's data (lines 52-63).
Loaded(reg, g, d) ==
    IF d.present /\ d.enabled /\ d.channel_id # NULL /\ GetChannel(d.channel_id) # NULL
    THEN (g :> d.channel_id) @@ reg
    ELSE reg

\* load_log_channels, lines 50-69: one guild of bot.guilds; an exception of
\* get_guild_data skips the guild.  After the last guild load_log_channels
\* returns and setup sets _ready (line 29).
LoadGuild ==
    /\ setup.pc = "load"
    /\ LET g == Head(setup.queue)
           rest == Tail(setup.queue)
       IN /\ \/ /\ log_channels' = Loaded(log_channels, g, logs_config[g])
                /\ UNCHANGED failures
             \/ /\ CanFail
                /\ failures' = failures + 1
                /\ UNCHANGED log_channels
          /\ setup' = IF rest = <<>> THEN [pc |-> "done", queue |-> <<>>]
                                     ELSE [setup EXCEPT !.queue = rest]
          /\ ready' = (ready \/ rest = <<>>)
    /\ UNCHANGED <<whispervars, modvars, commands, bot_ready, logs_config, live, lh>>

\* An event or a command arrives while its slot is free.
MaxLogCommands == 3
CanLog(h) ==
    /\ ~Running(h)
    /\ \E i \in 1..Len(SlotOrder) :
          /\ SlotOrder[i] = h
          /\ \A j \in 1..(i - 1) : Running(SlotOrder[j])
    /\ commands < MaxLogCommands

\* get_log_channel, lines 78-85: called by log_to_channel for an event in
\* guild g; a cached channel that still exists is returned, otherwise
\* get_guild_data is awaited.
StartGet(h, g) ==
    /\ CanLog(h)
    /\ commands' = commands + 1
    /\ LET r == [LogIdle EXCEPT !.cmd = "get", !.guild = g]
           c == IF g \in DOMAIN log_channels THEN GetChannel(log_channels[g])
                                             ELSE NULL
       IN lh' = [lh EXCEPT ![h] = IF c # NULL
                                  THEN [r EXCEPT !.pc = "done", !.result = c]
                                  ELSE [r EXCEPT !.pc = "g_read"]]
    /\ UNCHANGED <<whispervars, modvars, failures,
                   bot_ready, ready, setup, log_channels, logs_config, live>>

\* The store answers get_guild_data (line 85), or the query fails (104-106).
GetServe(h) ==
    /\ lh[h].pc = "g_read"
    /\ \/ /\ lh' = [lh EXCEPT ![h].data = logs_config[lh[h].guild],
                              ![h].pc = "g_got"]
          /\ UNCHANGED failures
       \/ /\ CanFail
          /\ failures' = failures + 1
          /\ lh' = [lh EXCEPT ![h].pc = "done", ![h].result = NULL]
    /\ UNCHANGED <<whispervars, modvars, commands,
                   bot_ready, ready, setup, log_channels, logs_config, live>>

\* get_log_channel, lines 86-102: the call resumes with the data it was
\* given; an existing channel is cached and returned.
GetResume(h) ==
    /\ lh[h].pc = "g_got"
    /\ LET r == lh[h]
           d == r.data
           c == IF d.present /\ d.enabled /\ d.channel_id # NULL
                THEN GetChannel(d.channel_id)
                ELSE NULL
       IN /\ log_channels' = IF c # NULL THEN (r.guild :> c) @@ log_channels
                                         ELSE log_channels
          /\ lh' = [lh EXCEPT ![h].pc = "done", ![h].result = c]
    /\ UNCHANGED <<whispervars, modvars, commands, failures,
                   bot_ready, ready, setup, logs_config, live>>

\* /logs channel <channel>, issued by an administrator of guild g: the
\* command first waits in cog_before_invoke (lines 34-36).
StartSet(h, g, c, p) ==
    /\ CanLog(h)
    /\ c \in live
    /\ ChannelGuild(c) = g
    /\ commands' = commands + 1
    /\ lh' = [lh EXCEPT ![h] = [LogIdle EXCEPT !.cmd = "set", !.pc = "c_wait",
                                               !.guild = g, !.chan = c,
                                               !.perms = p]]
    /\ UNCHANGED <<whispervars, modvars, failures,
                   bot_ready, ready, setup, log_channels, logs_config, live>>

\* set_log_channel, lines 36 and 127-146: _ready.wait() returns; without
\* send_messages and embed_links in the channel the command answers and
\* returns, otherwise update_guild_data writes the logs_config (an exception
\* is answered by the except block, 164-166).
SetWait(h) ==
    /\ lh[h].pc = "c_wait"
    /\ ready
    /\ LET r == lh[h]
       IN \/ /\ ~r.perms
             /\ lh' = [lh EXCEPT ![h].pc = "done"]
             /\ UNCHANGED <<logs_config, failures>>
          \/ /\ r.perms
             /\ logs_config' = [logs_config EXCEPT ![r.guild] = Stored(TRUE, r.chan)]
             /\ lh' = [lh EXCEPT ![h].pc = "c_update"]
             /\ UNCHANGED failures
          \/ /\ r.perms
             /\ CanFail
             /\ failures' = failures + 1
             /\ lh' = [lh EXCEPT ![h].pc = "done"]
             /\ UNCHANGED logs_config
    /\ UNCHANGED <<whispervars, modvars, commands,
                   bot_ready, ready, setup, log_channels, live>>

\* set_log_channel, lines 148-162: the cache is updated once
\* update_guild_data has returned; the confirmations are sent.
SetCache(h) ==
    /\ lh[h].pc = "c_update"
    /\ log_channels' = (lh[h].guild :> lh[h].chan) @@ log_channels
    /\ lh' = [lh EXCEPT ![h].pc = "done", ![h].result = lh[h].chan]
    /\ UNCHANGED <<whispervars, modvars, commands, failures,
                   bot_ready, ready, setup, logs_config, live>>

\* A channel is deleted on the platform.
ChannelDelete(c) ==
    /\ c \in live
    /\ commands < MaxLogCommands
    /\ commands' = commands + 1
    /\ live' = live \ {c}
    /\ UNCHANGED <<whispervars, modvars, failures,
                   bot_ready, ready, setup, log_channels, logs_config, lh>>

----------------------------------------------------------------------------
(* The system *)

Init ==
    /\ whispers = <<>>
    /\ active_whispers = EmptyDict
    /\ hs = [h \in Handlers |-> Idle]
    /\ last = Idle
    /\ threads = <<>>
    /\ channels = [g \in Guilds |-> {}]
    /\ whisper_enabled = [g \in Guilds |-> "unset"]
    /\ whisper_channel = [g \in Guilds |-> NULL]
    /\ nextChannel = 1
    /\ now = 1
    /\ loadq = GuildOrder
    /\ missed = {}
    /\ lastRef = [g \in Guilds |-> [u \in Users |-> NULL]]
    /\ commands = 0
    /\ restarts = 0
    /\ failures = 0
    /\ moderation_logs = <<>>
    /\ applied = <<>>
    /\ dms = <<>>
    /\ mod = ModIdle
    /\ LoggingIdle

\* A running handler resumes.
OpenSteps(h) ==
    \/ OpenCheck(h)
    \/ OpenDefer(h)
    \/ SetupGet(h)
    \/ SetupCreate(h)
    \/ SetupSet(h)
    \/ ThreadCreate(h)
    \/ ThreadSend(h)
    \/ ThreadInsert(h)
    \/ ThreadCache(h)

CloseSteps(h) ==
    \/ CloseSelect(h)
    \/ CloseSend(h)
    \/ CloseUpdate(h)
    \/ CloseCache(h)
    \/ CloseEdit(h)

ConfigSteps(h) ==
    \/ SetupEnabled(h)
    \/ SetupChannel(h)
    \/ SetupShow(h)

\* Members who open whispers, and the guild the commands of Spec are issued in.
Members == {"u1", "u2"}
Home == {"g1"}

\* One guild: /whisper and /close, issued at any time by any member, with
\* upstream failures and a process restart.
Next ==
    \/ \E h \in Handlers, g \in Home, u \in Members : StartOpen(h, g, u)
    \/ \E h \in Handlers : OpenOutsideGuild(h)
    \/ \E h \in Handlers, t \in ThreadIds, u \in Users : StartClose(h, t, u)
    \/ \E h \in Handlers : CloseOutsideThread(h)
    \/ \E h \in Handlers : OpenSteps(h)
    \/ \E h \in Handlers : CloseSteps(h)
    \/ Restart
    \/ CogLoadGuild

Spec == Init /\ [][Next]_vars

\* A step in which nothing fails upstream.
Quiet(A) == A /\ failures' = failures

\* Two guilds, /whisper and /close, a process restart; only a query of
\* cog_load may fail.
NextGuilds ==
    \/ Quiet(\E h \in Handlers, g \in Guilds, u \in Members : StartOpen(h, g, u))
    \/ Quiet(\E h \in Handlers, t \in ThreadIds, u \in {"u1", "adm"} : StartClose(h, t, u))
    \/ Quiet(\E h \in Handlers : OpenSteps(h))
    \/ Quiet(\E h \in Handlers : CloseSteps(h))
    \/ Quiet(Restart)
    \/ CogLoadGuild

SpecGuilds == Init /\ [][NextGuilds]_vars

\* One guild, with /whisper-setup.
NextConfig ==
    \/ \E h \in Handlers, g \in Home, u \in Members : StartOpen(h, g, u)
    \/ \E h \in Handlers, g \in Home, u \in Users,
          en \in {"unset", "on", "off"}, ch \in {NULL} \cup ChannelIds :
            StartSetup(h, g, u, en, ch)
    \/ \E h \in Handlers : OpenSteps(h)
    \/ \E h \in Handlers : ConfigSteps(h)
    \/ CogLoadGuild

SpecConfig == Init /\ [][NextConfig]_vars

\* One guild, every command of the cog, a process restart, upstream failures.
NextAll ==
    \/ \E h \in Handlers, g \in Home, u \in Members : StartOpen(h, g, u)
    \/ \E h \in Handlers, t \in ThreadIds, u \in {"u1", "adm"} : StartClose(h, t, u)
    \/ \E h \in Handlers, g \in Home, u \in Admins,
          en \in {"unset", "on", "off"}, ch \in {NULL} \cup ChannelIds :
            StartSetup(h, g, u, en, ch)
    \/ \E h \in Handlers, g \in Home, u \in {"u2", "adm"} : StartList(h, g, u)
    \/ \E h \in Handlers : OpenSteps(h)
    \/ \E h \in Handlers : CloseSteps(h)
    \/ \E h \in Handlers : ConfigSteps(h)
    \/ \E h \in Handlers : ListSelect(h)
    \/ Restart
    \/ CogLoadGuild

SpecAll == Init /\ [][NextAll]_vars

\* One guild: /whisper, /close and /list-whispers, with threads that the
\* platform archives for inactivity.
NextList ==
    \/ \E h \in Handlers, g \in Home, u \in Members : StartOpen(h, g, u)
    \/ \E h \in Handlers, t \in ThreadIds, u \in {"u1", "adm"} : StartClose(h, t, u)
    \/ \E h \in Handlers, g \in Home, u \in {"u2", "adm"} : StartList(h, g, u)
    \/ \E h \in Handlers : OpenSteps(h)
    \/ \E h \in Handlers : CloseSteps(h)
    \/ \E h \in Handlers : ListSelect(h)
    \/ \E t \in ThreadIds : AutoArchive(t)
    \/ CogLoadGuild

SpecList == Init /\ [][NextList]_vars

\* The invokers of the moderation scenario: an administrator, a member with
\* manage_guild, with kick_members, with ban_members, with none of them, and
\* a user outside a guild.
InGuild == [NoInvoker EXCEPT !.guild = TRUE, !.member = TRUE]
ModInvokers ==
    {[InGuild EXCEPT !.administrator = TRUE],
     [InGuild EXCEPT !.manage_guild = TRUE],
     [InGuild EXCEPT !.kick_members = TRUE],
     [InGuild EXCEPT !.ban_members = TRUE],
     InGuild,
     NoInvoker}

\* The arguments and facts that command `cmd` looks at; the others keep
\* their defaults.
Relevant(cmd, i, en, tg, d, bp, ok, tr) ==
    /\ ReadsConfig(i) \/ en
    /\ cmd = "mute" \/ d = MinMinutes
    /\ cmd \in NeedsBot \/ bp
    /\ cmd \in {"unban", "unmute", "purge", "lock", "unlock"} \/ ok
    /\ cmd \in ChecksHierarchy \/ tr = 1

\* The moderation commands, one at a time, with upstream failures.
MaxModCommands == 2

NextMod ==
    \/ /\ commands < MaxModCommands
       /\ \E cmd \in ModCommands, i \in ModInvokers, en \in BOOLEAN, tg \in Targets,
             d \in Durations, bp \in BOOLEAN, ok \in BOOLEAN, tr \in Roles :
               /\ Relevant(cmd, i, en, tg, d, bp, ok, tr)
               /\ StartMod(cmd, i, en, tg, d, bp, ok, tr)
    \/ ModCheck
    \/ ModDM
    \/ ModFetch
    \/ ModDefer
    \/ ModAct
    \/ ModLog
    \/ ModRead
    \/ ModReply

SpecMod == Init /\ [][NextMod]_vars

\* _check_mod_permissions on its own: every invoker and either value of the
\* moderation_enabled setting; the call returns its verdict.
InitCheck ==
    /\ whispers = <<>>
    /\ active_whispers = EmptyDict
    /\ hs = [h \in Handlers |-> Idle]
    /\ last = Idle
    /\ threads = <<>>
    /\ channels = [g \in Guilds |-> {}]
    /\ whisper_enabled = [g \in Guilds |-> "unset"]
    /\ whisper_channel = [g \in Guilds |-> NULL]
    /\ nextChannel = 1
    /\ now = 1
    /\ loadq = GuildOrder
    /\ missed = {}
    /\ lastRef = [g \in Guilds |-> [u \in Users |-> NULL]]
    /\ commands = 0
    /\ restarts = 0
    /\ failures = 0
    /\ moderation_logs = <<>>
    /\ applied = <<>>
    /\ dms = <<>>
    /\ LoggingIdle
    /\ \E i \in Invokers, en \in BOOLEAN :
          mod = [ModIdle EXCEPT !.cmd = "check", !.pc = "m_perm",
                                !.invoker = i, !.enabled = en]

CheckPermissions ==
    /\ mod.pc = "m_perm"
    /\ mod' = [mod EXCEPT !.allowed = CheckMod(mod.invoker, mod.enabled),
                          !.pc = "done"]
    /\ UNCHANGED <<whispervars, logvars, commands, failures, moderation_logs, applied, dms>>

NextCheck == CheckPermissions

SpecCheck == InitCheck /\ [][NextCheck]_vars

\* The Logging cog: the stored logs_config of each guild as it may be when
\* the process starts, the setup task, events that ask for the log channel,
\* /logs channel commands, channel deletions, upstream failures.
InitLog ==
    /\ whispers = <<>>
    /\ active_whispers = EmptyDict
    /\ hs = [h \in Handlers |-> Idle]
    /\ last = Idle
    /\ threads = <<>>
    /\ channels = [g \in Guilds |-> {}]
    /\ whisper_enabled = [g \in Guilds |-> "unset"]
    /\ whisper_channel = [g \in Guilds |-> NULL]
    /\ nextChannel = 1
    /\ now = 1
    /\ loadq = GuildOrder
    /\ missed = {}
    /\ lastRef = [g \in Guilds |-> [u \in Users |-> NULL]]
    /\ commands = 0
    /\ restarts = 0
    /\ failures = 0
    /\ moderation_logs = <<>>
    /\ applied = <<>>
    /\ dms = <<>>
    /\ mod = ModIdle
    /\ bot_ready = FALSE
    /\ ready = FALSE
    /\ setup = [pc |-> "wait", queue |-> <<>>]
    /\ log_channels = EmptyDict
    /\ \E d1 \in {NoData, Unset, Stored(FALSE, 1), Stored(TRUE, 1)},
          d2 \in {NoData, Stored(TRUE, 3)} :
            logs_config = [g \in Guilds |-> IF g = "g1" THEN d1 ELSE d2]
    /\ live = LogChannels
    /\ lh = [h \in Handlers |-> LogIdle]

NextLog ==
    \/ BotReady
    \/ LogSetupWait
    \/ LogSetupConnect
    \/ LoadConnect
    \/ LoadGuild
    \/ \E h \in Handlers, g \in Home : StartGet(h, g)
    \/ \E h \in Handlers : GetServe(h)
    \/ \E h \in Handlers : GetResume(h)
    \/ \E h \in Handlers, g \in Home, c \in LogChannels, p \in BOOLEAN :
          StartSet(h, g, c, p)
    \/ \E h \in Handlers : SetWait(h)
    \/ \E h \in Handlers : SetCache(h)
    \/ \E c \in LogChannels : ChannelDelete(c)

SpecLog == InitLog /\ [][NextLog]_vars

\* The event loop resumes every coroutine that can run: the setup task, a
\* call whose awaited query has been answered, a command whose wait is over.
\* The arrival of events and commands and the bot's becoming ready are not
\* forced.
FairLog ==
    /\ WF_vars(LogSetupWait)
    /\ WF_vars(LogSetupConnect)
    /\ WF_vars(LoadConnect)
    /\ WF_vars(LoadGuild)
    /\ \A h \in Handlers :
          /\ WF_vars(GetServe(h))
          /\ WF_vars(GetResume(h))
          /\ WF_vars(SetWait(h))
          /\ WF_vars(SetCache(h))

SpecLogFair == SpecLog /\ FairLog

----------------------------------------------------------------------------
(* Shorthands of the properties *)

\* The rows of thread t.
RowsOf(t) == {i \in 1..Len(whispers) : whispers[i].thread_id = t}

\* No handler is between its store write and its cache write.
Quiescent == \A h \in Handlers : hs[h].pc \notin {"t_cache", "x_cache"}

\* No command has been issued since the process started.
JustLoaded == loadq = <<>> /\ last = Idle /\ \A h \in Handlers : Free(h)

\* The last command ran from its issue to its return with no other handler
\* running, and nothing has happened since.
LastAlone(cmd) ==
    /\ last.cmd = cmd
    /\ last.pc = "done"
    /\ last.solo
    /\ last.guild # "none"

----------------------------------------------------------------------------
(* C1: in every reachable state the store holds at most one row with       *)
(* is_open = true for each (guild_id, user_id) pair.                       *)
C1_AtMostOneOpen ==
    \A g \in Guilds, u \in Users : Cardinality(OpenOf(g, u)) <= 1

(* C2: whenever no open or close is between its store write and its cache  *)
(* write (and no rebuild is under way, and nothing failed upstream), the    *)
(* registry has an entry for (guild, user) iff the store holds an open row  *)
(* for the pair, and the entry names that row's thread.                     *)
C2_RegistryMirrorsStore ==
    (Quiescent /\ loadq = <<>> /\ failures = 0) =>
        \A g \in Guilds, u \in Users :
            /\ Lookup(g, u) # NULL <=> OpenOf(g, u) # {}
            /\ Lookup(g, u) # NULL =>
                  \E i \in OpenOf(g, u) : whispers[i].thread_id = Lookup(g, u)

(* C3: two /whisper commands of one user in one guild can both pass the     *)
(* duplicate check before either has persisted its row, and then both       *)
(* insert: whenever two such handlers have both inserted, the store holds   *)
(* both rows, each open unless a /close has closed it since.                *)
BothInserted(h, k) ==
    /\ h # k
    /\ hs[h].cmd = "open" /\ hs[h].pc = "t_cache"
    /\ hs[k].cmd = "open" /\ hs[k].pc = "t_cache"
    /\ hs[h].guild = hs[k].guild
    /\ hs[h].user = hs[k].user
    /\ \A i \in RowsOf(hs[h].thread) \cup RowsOf(hs[k].thread) :
          i > hs[h].seenLen /\ i > hs[k].seenLen

C3_BothInsert ==
    \A h, k \in Handlers :
        BothInserted(h, k) =>
            /\ hs[h].thread # hs[k].thread
            /\ \A t \in {hs[h].thread, hs[k].thread} :
                  \E i \in RowsOf(t) :
                      /\ whispers[i].guild_id = hs[h].guild
                      /\ whispers[i].user_id = hs[h].user
                      /\ whispers[i].is_open \/ whispers[i].closed_at # NULL

C3_TwoOpenRows ==
    \E h, k \in Handlers :
        /\ BothInserted(h, k)
        /\ OpenOf(hs[h].guild, hs[h].user)
              = RowsOf(hs[h].thread) \cup RowsOf(hs[k].thread)
        /\ Cardinality(OpenOf(hs[h].guild, hs[h].user)) = 2

\* Handler h takes a step (every resumption moves its pc).
Acts(h) == hs[h].pc # "idle" /\ hs'[h].pc # hs[h].pc /\ restarts' = restarts

\* Handler h returns in this step.
Returns(h) == Acts(h) /\ hs'[h] = Idle /\ last'.pc = "done"

\* The replies of the command that returns in this step are exactly <<msg>>.
Replies(msg) == Len(last'.replies) = 1 /\ last'.replies[1].msg = msg

(* C4: the registry is mutated by an open or a close only after that        *)
(* handler's store write (INSERT, UPDATE) has succeeded; a handler whose    *)
(* store write fails leaves the store and the registry as they were and     *)
(* answers with a failure message.                                          *)
C4_StoreFirst ==
    [][\A h \in Handlers :
          /\ (Acts(h) /\ active_whispers' # active_whispers)
                => (hs[h].wrote /\ hs[h].pc \in {"t_cache", "x_cache"})
          /\ (Acts(h) /\ hs[h].pc \in {"t_insert", "x_update"} /\ ~hs'[h].wrote)
                => /\ Returns(h)
                   /\ last'.wfail
                   /\ active_whispers' = active_whispers
                   /\ whispers' = whispers
                   /\ Replies("fail_thread") \/ Replies("error")]_vars

C4_WriteFailed ==
    /\ last.wfail
    /\ last.cmd = "close"
    /\ Lookup(last.guild, last.owner) = last.thread

C6_OpenCreates ==
    (LastAlone("open") /\ failures = 0 /\ last.enabled = "on" /\ ~last.preOpen) =>
        /\ last.replies = <<[msg |-> "created", ref |-> last.thread]>>
        /\ last.thread # NULL
        /\ Len(whispers) = last.preLen + 1
        /\ LET w == whispers[Len(whispers)]
           IN /\ w.guild_id = last.guild
              /\ w.user_id = last.user
              /\ w.thread_id = last.thread
              /\ w.created_at # NULL
              /\ w.closed_at = NULL
              /\ w.is_open
        /\ Lookup(last.guild, last.user) = last.thread

(* C7: a /whisper that follows an open reply naming thread T for the same   *)
(* user and guild, with no close of that user's thread in between, answers  *)
(* with the same T, and creates no channel and no thread, inserts no row    *)
(* and leaves the registry unchanged.                                       *)
C7_SecondOpen ==
    [][\A h \in Handlers :
          (/\ Acts(h)
           /\ hs[h].cmd = "open" /\ hs[h].pc = "c_cfg"
           /\ failures' = failures
           /\ Enabled(hs[h].guild)
           /\ lastRef[hs[h].guild][hs[h].user] # NULL)
          => /\ Returns(h)
             /\ last'.replies = <<[msg |-> "already",
                                   ref |-> lastRef[hs[h].guild][hs[h].user]]>>
             /\ UNCHANGED <<whispers, active_whispers, threads, channels>>]_vars

C7_SameThread ==
    /\ LastAlone("open")
    /\ last.replies = <<[msg |-> "already", ref |-> 1]>>
    /\ Len(whispers) = 1
    /\ whispers[1].is_open
    /\ whispers[1].user_id = last.user
    /\ Len(threads) = 1

(* C8: a /close issued inside an open whisper thread T by its owner or by   *)
(* an administrator (nothing failing, no other command running) leaves T's  *)
(* row with is_open = false and closed_at = the time of the UPDATE, and     *)
(* lookup(guild, owner) returns nothing.                                    *)
C8_CloseCloses ==
    (/\ LastAlone("close") /\ last.nfail = 0 /\ last.preOpen
     /\ \E i \in RowsOf(last.thread) :
           last.user \in Admins \/ last.user = whispers[i].user_id) =>
        /\ last.replies = <<[msg |-> "closed", ref |-> NULL]>>
        /\ RowsOf(last.thread) # {}
        /\ \A i \in RowsOf(last.thread) :
              /\ ~whispers[i].is_open
              /\ whispers[i].closed_at = now - 1
              /\ Lookup(last.guild, whispers[i].user_id) = NULL

C8_ClosedByOwner ==
    /\ LastAlone("close")
    /\ last.replies = <<[msg |-> "closed", ref |-> NULL]>>
    /\ last.user = last.owner
    /\ last.user \notin Admins

(* C9: a /close by a user who is neither the thread's owner nor an          *)
(* administrator is refused with no side effect: no closing message, the    *)
(* rows and the registry unchanged, the thread neither archived nor locked. *)
C9_Refused ==
    [][\A h \in Handlers :
          (/\ Acts(h)
           /\ hs[h].cmd = "close" /\ hs[h].pc = "x_select"
           /\ hs[h].user \notin Admins
           /\ \E i \in RowsOf(hs[h].thread) :
                 /\ whispers[i].guild_id = hs[h].guild
                 /\ whispers[i].is_open
                 /\ whispers[i].user_id # hs[h].user)
          => /\ Returns(h)
             /\ failures' = failures => Replies("no_permission")
             /\ UNCHANGED <<whispers, active_whispers, threads>>]_vars

C9_RefusedOther ==
    /\ last.cmd = "close"
    /\ last.replies = <<[msg |-> "no_permission", ref |-> NULL]>>
    /\ last.user \notin Admins
    /\ last.user # last.owner
    /\ Lookup(last.guild, last.owner) = last.thread

(* C10: a /close in a thread with no open row (already closed, or never a   *)
(* whisper thread) is refused with "not a whisper thread": no store write,  *)
(* no message, the registry unchanged.                                      *)
C10_NotWhisper ==
    [][\A h \in Handlers :
          (/\ Acts(h)
           /\ hs[h].cmd = "close" /\ hs[h].pc = "x_select"
           /\ \A i \in RowsOf(hs[h].thread) :
                 ~(whispers[i].guild_id = hs[h].guild /\ whispers[i].is_open))
          => /\ Returns(h)
             /\ failures' = failures => Replies("not_whisper")
             /\ UNCHANGED <<whispers, active_whispers, threads>>]_vars

C10_AlreadyClosed ==
    /\ last.cmd = "close"
    /\ last.replies = <<[msg |-> "not_whisper", ref |-> NULL]>>
    /\ \E i \in RowsOf(last.thread) : ~whispers[i].is_open

(* C11: in every reachable state each whisper row has closed_at set if and  *)
(* only if its is_open flag is false.                                       *)
C11_ClosedAtIffClosed ==
    \A i \in 1..Len(whispers) :
        (whispers[i].closed_at # NULL) <=> ~whispers[i].is_open

C11_OpenAndClosedRows ==
    \E i, j \in 1..Len(whispers) :
        /\ whispers[i].is_open /\ whispers[i].closed_at = NULL
        /\ ~whispers[j].is_open /\ whispers[j].closed_at # NULL

\* The steps (a)-(c) of an open: the management channel, the thread, the
\* initial message.
BeforeInsert == {"s_get", "s_create", "s_set", "t_create", "t_send"}

(* C12: an open performs its side effects in the order (a) management      *)
(* channel, (b) thread, (c) initial message, (d) INSERT, (e) registry: each *)
(* effect happens at its own step with the earlier ones done and the later  *)
(* ones not; a failure in (a)-(c) ends the command with a failure reply,    *)
(* having persisted no row and added no registry entry.                     *)
C12_OpenOrder ==
    [][\A h \in Handlers :
          (Acts(h) /\ hs[h].cmd = "open") =>
             LET r == hs[h]
             IN /\ Len(threads') # Len(threads)
                      => /\ r.pc = "t_create"
                         /\ r.chan \in channels[r.guild]
                         /\ ~r.wrote
                /\ (\E t \in 1..Len(threads) : threads'[t].initial # threads[t].initial)
                      => /\ r.pc = "t_send"
                         /\ r.thread \in 1..Len(threads)
                         /\ threads'[r.thread].initial = 1
                         /\ RowsOf(r.thread) = {}
                /\ whispers' # whispers
                      => /\ r.pc = "t_insert"
                         /\ threads[r.thread].initial = 1
                         /\ RowsOf(r.thread) = {}
                         /\ active_whispers' = active_whispers
                /\ active_whispers' # active_whispers
                      => /\ r.pc = "t_cache"
                         /\ r.wrote
                         /\ RowsOf(r.thread) # {}
                /\ (r.pc \in BeforeInsert /\ failures' # failures)
                      => /\ Returns(h)
                         /\ ~last'.wrote
                         /\ Replies("fail_setup") \/ Replies("fail_thread")
                         /\ whispers' = whispers
                         /\ active_whispers' = active_whispers
                         /\ r.thread # NULL => RowsOf(r.thread) = {}]_vars

C12_FailedAtMessage ==
    /\ LastAlone("open")
    /\ last.nfail = 1
    /\ last.thread # NULL
    /\ threads[last.thread].initial = 0
    /\ last.chan \in channels[last.guild]
    /\ whispers = <<>>
    /\ Lookup(last.guild, last.user) = NULL

(* C13: when the INSERT of an open fails, the invoker gets an error reply,  *)
(* no registry entry is added, no row is stored, and the management         *)
(* channel, the thread and the initial message that were already created    *)
(* stay as they are.                                                        *)
C13_InsertFails ==
    [][\A h \in Handlers :
          (/\ Acts(h)
           /\ hs[h].cmd = "open" /\ hs[h].pc = "t_insert"
           /\ failures' # failures)
          => /\ Returns(h)
             /\ Replies("fail_thread")
             /\ ~last'.escaped
             /\ UNCHANGED <<whispers, active_whispers, threads, channels,
                            whisper_channel>>
             /\ threads'[hs[h].thread].initial = 1
             /\ ~threads'[hs[h].thread].archived
             /\ hs[h].chan \in channels'[hs[h].guild]]_vars

C13_OrphanThread ==
    /\ LastAlone("open")
    /\ last.wfail
    /\ last.replies = <<[msg |-> "fail_thread", ref |-> NULL]>>
    /\ threads[last.thread].initial = 1
    /\ ~threads[last.thread].archived
    /\ whisper_channel[last.guild] = last.chan
    /\ whispers = <<>>
    /\ Lookup(last.guild, last.user) = NULL

\* Thread t is archived or locked in this step.
Archives(t) ==
    \/ threads'[t].archived # threads[t].archived
    \/ threads'[t].locked # threads[t].locked

(* C14: an authorized close performs its side effects in the order closing  *)
(* message, UPDATE (is_open = 0 with the closure timestamp), registry pop,  *)
(* archive and lock: each effect happens at its own step, with the earlier  *)
(* ones done and the later ones not yet.                                    *)
C14_CloseOrder ==
    [][\A h \in Handlers :
          (Acts(h) /\ hs[h].cmd = "close") =>
             LET r == hs[h]
                 t == r.thread
             IN /\ threads'[t].closing # threads[t].closing
                      => /\ r.pc = "x_send"
                         /\ MayClose(r.user, r.owner)
                         /\ ~r.wrote
                         /\ ~Archives(t)
                         /\ r.solo => SelectOpen(whispers, r.guild, t) # {}
                /\ whispers' # whispers
                      => /\ r.pc = "x_update"
                         /\ threads[t].closing >= 1
                         /\ \A i \in RowsOf(t) :
                               ~whispers'[i].is_open /\ whispers'[i].closed_at = now
                         /\ active_whispers' = active_whispers
                         /\ threads' = threads
                         /\ r.solo => ~threads[t].archived
                /\ active_whispers' # active_whispers
                      => /\ r.pc = "x_cache"
                         /\ r.wrote
                         /\ \A i \in RowsOf(t) : ~whispers[i].is_open
                         /\ threads' = threads
                         /\ r.solo => ~threads[t].archived
                /\ Archives(t)
                      => /\ r.pc = "x_edit"
                         /\ r.wrote
                         /\ threads[t].closing >= 1
                         /\ \A i \in RowsOf(t) : ~whispers[i].is_open
                         /\ r.solo => Lookup(r.guild, r.owner) = NULL]_vars

C14_ClosedByAdmin ==
    /\ LastAlone("close")
    /\ last.user \in Admins
    /\ last.user # last.owner
    /\ last.replies = <<[msg |-> "closed", ref |-> NULL]>>
    /\ threads[last.thread].closing = 1
    /\ threads[last.thread].archived
    /\ threads[last.thread].locked
    /\ \A i \in RowsOf(last.thread) : ~whispers[i].is_open
    /\ Lookup(last.guild, last.owner) = NULL

(* C15: when channel.edit (archive and lock) fails after the UPDATE of a    *)
(* close has succeeded, the invoker gets the error reply and nothing is     *)
(* rolled back: the row stays closed with its closed_at and the registry    *)
(* entry stays removed.                                                     *)
C15_ArchiveFails ==
    [][\A h \in Handlers :
          (/\ Acts(h)
           /\ hs[h].cmd = "close" /\ hs[h].pc = "x_edit"
           /\ failures' # failures
           /\ threads' = threads)
          => /\ Returns(h)
             /\ Replies("error")
             /\ ~last'.escaped
             /\ UNCHANGED <<whispers, active_whispers>>
             /\ RowsOf(hs[h].thread) # {}
             /\ \A i \in RowsOf(hs[h].thread) :
                   ~whispers'[i].is_open /\ whispers'[i].closed_at # NULL
             /\ hs[h].solo => Lookup(hs[h].guild, hs[h].owner)' = NULL]_vars

C15_ClosedNotArchived ==
    /\ LastAlone("close")
    /\ last.wrote
    /\ last.nfail = 1
    /\ last.replies = <<[msg |-> "error", ref |-> NULL]>>
    /\ ~threads[last.thread].archived
    /\ threads[last.thread].closing = 1
    /\ \A i \in RowsOf(last.thread) : ~whispers[i].is_open
    /\ Lookup(last.guild, last.owner) = NULL

(* C16: no operation deletes a whisper row: in every step of open, close,   *)
(* configure, list and rebuild the table keeps every row with its guild,    *)
(* user, thread and creation time, and a row changes only in the UPDATE of  *)
(* a close of that row's thread, and then only in is_open and closed_at.    *)
C16_RowsOnlyGrow ==
    [][/\ Len(whispers') >= Len(whispers)
       /\ \A i \in 1..Len(whispers) :
             /\ whispers'[i].guild_id = whispers[i].guild_id
             /\ whispers'[i].user_id = whispers[i].user_id
             /\ whispers'[i].thread_id = whispers[i].thread_id
             /\ whispers'[i].created_at = whispers[i].created_at
             /\ whispers'[i] # whispers[i]
                   => \E h \in Handlers :
                         /\ Acts(h)
                         /\ hs[h].cmd = "close" /\ hs[h].pc = "x_update"
                         /\ hs[h].thread = whispers[i].thread_id
                         /\ hs[h].guild = whispers[i].guild_id]_vars

C16_ClosedRowKept ==
    /\ Len(whispers) = 2
    /\ ~whispers[1].is_open
    /\ whispers[2].is_open
    /\ restarts = 1
    /\ JustLoaded

\* The rows of user u in guild g that existed when the last command was issued.
EarlierRows(g, u) ==
    {i \in 1..last.preLen : whispers[i].guild_id = g /\ whispers[i].user_id = u}

(* C17, first half: a row with is_open = false never becomes open again,    *)
(* and every inserted row carries a thread_id that no earlier row has.      *)
C17_ClosedIsTerminal ==
    [][/\ \A i \in 1..Len(whispers) : ~whispers[i].is_open => ~whispers'[i].is_open
       /\ Len(whispers') > Len(whispers)
             => /\ Len(whispers') = Len(whispers) + 1
                /\ whispers'[Len(whispers')].is_open
                /\ \A i \in 1..Len(whispers) :
                      whispers[i].thread_id # whispers'[Len(whispers')].thread_id]_vars

(* C17: CLOSED is terminal, and a /whisper of a user all of whose earlier   *)
(* rows are closed (feature enabled, nothing failing, no other command      *)
(* running) creates one new open row whose thread_id differs from every     *)
(* earlier row's, and leaves the earlier rows closed.                       *)
C17_ReopenCreates ==
    (/\ LastAlone("open") /\ failures = 0 /\ last.enabled = "on"
     /\ ~last.preOpen
     /\ EarlierRows(last.guild, last.user) # {}) =>
        /\ \A i \in EarlierRows(last.guild, last.user) : ~whispers[i].is_open
        /\ Len(whispers) = last.preLen + 1
        /\ LET w == whispers[Len(whispers)]
           IN /\ w.guild_id = last.guild
              /\ w.user_id = last.user
              /\ w.is_open
              /\ \A i \in 1..last.preLen : whispers[i].thread_id # w.thread_id

(* C18: a /whisper that finds whisper_enabled false for its guild is        *)
(* refused with no side effect: no management channel, no thread, no row,   *)
(* the registry and the configuration unchanged.                            *)
C18_DisabledRefused ==
    [][\A h \in Handlers :
          (/\ Acts(h)
           /\ hs[h].cmd = "open" /\ hs[h].pc = "c_cfg"
           /\ whisper_enabled[hs[h].guild] = "off")
          => /\ Returns(h)
             /\ failures' = failures => Replies("disabled")
             /\ UNCHANGED <<whispers, active_whispers, threads, channels,
                            whisper_channel, whisper_enabled, nextChannel>>]_vars

C18_RefusedWhileOff ==
    /\ LastAlone("open")
    /\ last.replies = <<[msg |-> "disabled", ref |-> NULL]>>
    /\ whisper_enabled[last.guild] = "off"
    /\ whispers = <<>>
    /\ threads = <<>>
    /\ channels[last.guild] = {}
    /\ Lookup(last.guild, last.user) = NULL

\* The replies that report a failure to the invoker.
FailureReplies == {"error", "fail_setup", "fail_thread"}

(* C19: for every command of the cog (open, close, configure, list), when   *)
(* a store, configuration or platform call fails at any step, the handler   *)
(* catches the error, the invoker receives exactly one failure reply and no *)
(* exception leaves the handler.                                            *)
C19_FailureReported ==
    (last.pc = "done" /\ last.nfail > 0) =>
        /\ ~last.escaped
        /\ Len(last.replies) = 1
        /\ last.replies[1].msg \in FailureReplies

\* The threads of the open rows of guild g.
OpenThreads(g) == {whispers[i].thread_id : i \in OpenRows(whispers, g)}

(* C20: /list-whispers is administrator-only and complete: a non-           *)
(* administrator is refused without any store read, and an administrator's  *)
(* reply (nothing failing, no other command running) enumerates exactly the *)
(* threads of the guild's rows with is_open = true.                         *)
C20_ListComplete ==
    (LastAlone("list") /\ last.nfail = 0) =>
        IF last.user \in Admins
        THEN /\ last.selected
             /\ last.listed = OpenThreads(last.guild)
             /\ last.replies = <<[msg |-> IF OpenThreads(last.guild) = {}
                                          THEN "none" ELSE "list",
                                  ref |-> NULL]>>
        ELSE /\ ~last.selected
             /\ last.listed = {}
             /\ last.replies = <<[msg |-> "no_permission", ref |-> NULL]>>

\* The refusals sent before the try block of a moderation command.
Refusals == {"no_permission", "bot_no_permission", "bad_duration", "invalid",
             "hierarchy"}

\* The moderation command has returned with the single reply msg.
ModReplied(msg) ==
    /\ mod'.pc = "done"
    /\ ~mod'.escaped
    /\ Len(mod'.replies) = 1
    /\ mod'.replies[1].msg = msg

(* C21: mute accepts only durations from 1 to 40320 minutes: with a         *)
(* duration below 1 or above 40320 no step of the command applies a timeout *)
(* or writes a log row, and the command returns with an error reply (the    *)
(* duration error once the permission checks have passed); a duration       *)
(* inside the range is not refused for its duration.                        *)
C21_MuteDuration ==
    [][mod'.cmd = "mute" =>
          /\ (mod'.duration < 1 \/ mod'.duration > 40320)
                => /\ UNCHANGED <<applied, moderation_logs, dms>>
                   /\ mod'.pc \in {"m_check", "done"}
                   /\ (mod'.pc = "done" /\ mod'.nfail = 0)
                         => /\ \E msg \in Refusals : ModReplied(msg)
                            /\ (mod'.allowed /\ mod'.botperm)
                                  => ModReplied("bad_duration")
          /\ (mod'.duration >= 1 /\ mod'.duration <= 40320)
                => /\ ~ModReplied("bad_duration")
                   /\ (mod'.pc = "done" /\ mod'.nfail = 0 /\ mod'.allowed
                          /\ mod'.botperm /\ mod'.top < 2)
                         => ModReplied("ok") /\ mod'.acted /\ mod'.logged]_vars

C21_TooLong ==
    /\ mod.cmd = "mute"
    /\ mod.duration = 40321
    /\ mod.allowed
    /\ mod.replies = <<[msg |-> "bad_duration", ref |-> NULL]>>
    /\ applied = <<>>
    /\ moderation_logs = <<>>


\* Handler j runs an open of user u in guild g, or a close inside a thread
\* of user u in guild g.
Concerns(j, g, u) ==
    /\ ~Free(j)
    /\ hs[j].guild = g
    /\ \/ hs[j].cmd = "open" /\ hs[j].user = u
       \/ /\ hs[j].cmd = "close"
          /\ \E i \in RowsOf(hs[j].thread) : whispers[i].user_id = u

(* C22: no permanent lockout. When the store holds no open row for (guild,  *)
(* user) and no other open or close for that user is in progress (and no    *)
(* rebuild is under way), a /whisper of that user that finds the feature    *)
(* enabled and meets no failure is not answered "you already have an active *)
(* whisper thread": it passes the duplicate check and goes on to create its *)
(* thread.                                                                  *)
C22_NoLockout ==
    [][\A h \in Handlers :
          (/\ Acts(h)
           /\ hs[h].cmd = "open" /\ hs[h].pc = "c_cfg"
           /\ failures = 0 /\ failures' = failures
           /\ loadq = <<>>
           /\ whisper_enabled[hs[h].guild] # "off"
           /\ OpenOf(hs[h].guild, hs[h].user) = {}
           /\ \A j \in Handlers \ {h} : ~Concerns(j, hs[h].guild, hs[h].user))
          => /\ ~(Returns(h) /\ Replies("already"))
             /\ hs'[h].pc = "c_defer"]_vars


\* The management channels created in guild g by this step.
Created(g) == channels'[g] \ channels[g]

(* C23, second half: a call of _setup_whisper_channel that finds the        *)
(* configured channel existing returns that channel and creates nothing.    *)
C23_ExistingReturned ==
    [][\A h \in Handlers :
          (/\ Acts(h) /\ hs[h].pc = "s_get"
           /\ failures' = failures
           /\ ExistingChannel(hs[h].guild) # NULL)
          => /\ UNCHANGED <<channels, whisper_channel, nextChannel>>
             /\ hs[h].cmd = "open"
                   => /\ hs'[h].pc = "t_create"
                      /\ hs'[h].chan = ExistingChannel(hs[h].guild)
             /\ hs[h].cmd = "setup" => Returns(h)]_vars

(* C23: across the interleavings of /whisper and /whisper-setup in one      *)
(* guild, a management channel is created only while no configured          *)
(* whisper_channel id resolves to an existing channel, so a guild never     *)
(* has more than one created management channel (no channel is deleted).    *)
C23_OneChannel ==
    [][\A g \in Guilds :
          /\ Created(g) # {} => ExistingChannel(g) = NULL
          /\ failures = 0 => Cardinality(channels'[g]) <= 1]_vars


\* The registry entries and the rows of guild g.
EntriesOf(reg, g) == IF g \in DOMAIN reg THEN reg[g] ELSE EmptyDict
GuildRows(tbl, g) == SelectSeq(tbl, LAMBDA w : w.guild_id = g)

(* C24: guild isolation. A step of a /whisper or a /close running in guild  *)
(* G leaves the registry entries of every other guild and the rows of      *)
(* every other guild as they were.                                          *)
C24_GuildIsolation ==
    [][\A h \in Handlers :
          (Acts(h) /\ hs[h].cmd \in {"open", "close"})
          => \A g \in Guilds \ {hs[h].guild} :
                /\ EntriesOf(active_whispers', g) = EntriesOf(active_whispers, g)
                /\ (g \in DOMAIN active_whispers') = (g \in DOMAIN active_whispers)
                /\ GuildRows(whispers', g) = GuildRows(whispers, g)]_vars

C24_ClosedBesideOpen ==
    /\ last.cmd = "close" /\ last.pc = "done"
    /\ last.replies = <<[msg |-> "closed", ref |-> NULL]>>
    /\ Lookup(last.guild, last.owner) = NULL
    /\ \E g \in Guilds \ {last.guild} :
          /\ Lookup(g, last.owner) # NULL
          /\ OpenOf(g, last.owner) # {}


(* C25: a moderation command (any of the eleven) whose invoker fails        *)
(* _check_mod_permissions performs no platform action, sends no DM, reads   *)
(* and writes no moderation log row, never enters its try block, and (when  *)
(* nothing fails upstream) answers with the permission error.               *)
C25_Unauthorised ==
    [][(mod'.cmd \in ModCommands /\ ~CheckMod(mod'.invoker, mod'.enabled)) =>
          /\ UNCHANGED <<applied, dms, moderation_logs>>
          /\ ~mod'.acted /\ ~mod'.dm_sent /\ ~mod'.logged /\ ~mod'.read
          /\ mod'.pc \in {"m_check", "done"}
          /\ (mod'.pc = "done" /\ mod'.nfail = 0)
                => mod'.replies = <<[msg |-> "no_permission", ref |-> NULL]>>]_vars

C25_MemberWhileDisabled ==
    /\ mod.cmd = "warn" /\ mod.pc = "done"
    /\ mod.invoker.kick_members /\ ~mod.enabled
    /\ mod.replies = <<[msg |-> "no_permission", ref |-> NULL]>>
    /\ dms = <<>> /\ moderation_logs = <<>>


\* The commands whose log row records a platform action on a member.
Sanctions == {"kick", "ban", "unban", "mute", "unmute"}

\* How many entries of sequence s equal e.
Count(s, e) == Cardinality({i \in 1..Len(s) : s[i] = e})

(* C27: kick, ban, unban, mute and unmute write their moderation log row    *)
(* only after the platform action has succeeded: an invocation whose        *)
(* platform call failed writes no row, and every KICK/BAN/UNBAN/MUTE/UNMUTE *)
(* row in the store has a platform action that was carried out.             *)
C27_LogAfterAction ==
    [][/\ mod'.cmd \in Sanctions =>
             /\ moderation_logs' # moderation_logs
                   => /\ mod.acted
                      /\ applied # <<>>
                      /\ moderation_logs' = Append(moderation_logs,
                                                   applied[Len(applied)])
             /\ mod'.logged => mod'.acted
       /\ \A a \in {"KICK", "BAN", "UNBAN", "MUTE", "UNMUTE"}, t \in Targets :
             Count(moderation_logs', [action |-> a, target |-> t])
                <= Count(applied', [action |-> a, target |-> t])]_vars

C27_ActionFailed ==
    /\ mod.cmd = "ban" /\ mod.pc = "done"
    /\ mod.dm_sent /\ ~mod.acted /\ ~mod.logged
    /\ mod.replies = <<[msg |-> "forbidden", ref |-> NULL]>>
    /\ moderation_logs = <<>> /\ applied = <<>>


(* C28: kick, ban and mute do not act on a member whose top role is at or   *)
(* above the bot's top role: no DM is sent, no kick, ban or timeout is      *)
(* applied, no moderation log row is written, and once the earlier checks   *)
(* (permission, bot permission, duration) have passed the reply is the      *)
(* role-hierarchy error.                                                    *)
C28_Hierarchy ==
    [][(mod'.cmd \in {"kick", "ban", "mute"} /\ mod'.top >= 2) =>
          /\ UNCHANGED <<applied, dms, moderation_logs>>
          /\ ~mod'.acted /\ ~mod'.dm_sent /\ ~mod'.logged
          /\ mod'.pc \in {"m_check", "done"}
          /\ (mod'.pc = "done" /\ mod'.nfail = 0)
                => /\ \E msg \in Refusals : ModReplied(msg)
                   /\ (/\ mod'.allowed /\ mod'.botperm
                       /\ mod'.duration >= 1 /\ mod'.duration <= 40320)
                         => ModReplied("hierarchy")]_vars

C28_EqualRole ==
    /\ mod.cmd = "kick" /\ mod.pc = "done"
    /\ mod.top = 2
    /\ mod.replies = <<[msg |-> "hierarchy", ref |-> NULL]>>
    /\ applied = <<>> /\ dms = <<>> /\ moderation_logs = <<>>


(* C26: _check_mod_permissions returns true exactly when the invocation is  *)
(* in a guild by a guild member and either the member has administrator or  *)
(* manage_guild (whatever moderation_enabled is), or moderation_enabled is  *)
(* true and the member has kick_members or ban_members.                     *)
C26_TruthTable ==
    (mod.cmd = "check" /\ mod.pc = "done") =>
        LET i == mod.invoker
        IN mod.allowed <=>
              /\ i.guild /\ i.member
              /\ \/ i.administrator
                 \/ i.manage_guild
                 \/ mod.enabled /\ (i.kick_members \/ i.ban_members)

C26_ManagerWhileDisabled ==
    /\ mod.cmd = "check" /\ mod.pc = "done"
    /\ mod.allowed
    /\ ~mod.enabled
    /\ mod.invoker.manage_guild /\ ~mod.invoker.administrator
    /\ ~mod.invoker.kick_members /\ ~mod.invoker.ban_members


(* C29: once the bot is ready, setup eventually sets _ready, and a command  *)
(* of the Logging cog that waits in cog_before_invoke eventually gets past  *)
(* the wait.                                                                *)
C29_EventuallyReady ==
    /\ bot_ready ~> ready
    /\ \A h \in Handlers :
          (bot_ready /\ lh[h].pc = "c_wait") ~> (lh[h].pc # "c_wait")

\* The get_log_channel call of slot h returns a channel in this step.
ReturnsChannel(h) ==
    /\ lh'[h] # lh[h]
    /\ lh'[h].cmd = "get"
    /\ lh'[h].pc = "done"
    /\ lh'[h].result # NULL

(* C30, first half: get_log_channel returns no channel for a guild whose    *)
(* stored logs_config has enabled = false (or that has no guild_data).       *)
C30_DisabledNeverReturned ==
    [][\A h \in Handlers :
          ReturnsChannel(h)
          => /\ logs_config[lh'[h].guild].present
             /\ logs_config[lh'[h].guild].enabled]_vars

(* C30: a channel that get_log_channel returns from its cache, while no      *)
(* other call or command of the cog is running and nothing has failed       *)
(* upstream, is the channel named by the stored channel_id of an enabled    *)
(* logs_config: the cache is never stale.                                   *)
C30_ReturnsStored ==
    [][\A h \in Handlers :
          (/\ ReturnsChannel(h)
           /\ failures = 0
           /\ ~Running(h)
           /\ \A j \in Handlers \ {h} : ~Running(j))
          => /\ logs_config[lh'[h].guild].present
             /\ logs_config[lh'[h].guild].enabled
             /\ logs_config[lh'[h].guild].channel_id = lh'[h].result]_vars

====
